---------------------------- MODULE Spec2Model ----------------------------
(***************************************************************************)
(* A model of the analytics core of the EMS ml-service:                    *)
(*   - ModelStorage (src/services/model_storage.py): the on-disk store of  *)
(*     trained models, one file per version plus a copied "latest" file;   *)
(*   - PersistentAnomalyDetector, AnomalyDetector (src/models) and the     *)
(*     AnomalyDetector of app/services/anomaly_detection.py;               *)
(*   - the z-score statistical path of analyze_asset_metrics.              *)
(*                                                                         *)
(* File names are sequences of tokens: the Python string                   *)
(* f"{model_name}_{version}.pkl" is model_name \o <<version, "pkl">>,      *)
(* where a model name such as "cpu_mem" is <<"cpu", "mem">>.               *)
(* A fitted IsolationForest is an opaque term built from what fit()        *)
(* was given (the forest is deterministic: random_state = 42); its         *)
(* scores are terms over the fitted state and the scored point.            *)
(***************************************************************************)
EXTENDS Integers, Sequences, FiniteSets, TLC

VARIABLES
    files,      \* the file system: path -> content, DOMAIN files = existing paths
    now,        \* datetime.utcnow(), in whole seconds since the first save
    ret,        \* the last call made and what it returned
    lastSave,   \* history: per model name, the most recent completed save
    budget,     \* the number of state-changing calls the run may still make
    pdet,       \* the PersistentAnomalyDetector instance last constructed
    sdet,       \* the global AnomalyDetector of src/api/ml_routes.py
    adet,       \* the global AnomalyDetector of app/services/anomaly_detection.py
    afiles,     \* the directory app/ml/models of that detector
    spc,        \* concurrent save_model: position of the saving process
    sargs,      \* concurrent save_model: its arguments and locals
    lpc,        \* concurrent load_model: position of the loading process
    largs,      \* concurrent load_model: its arguments and result
    series,     \* statistical path: the metric values fetched for one metric
    verdicts,   \* statistical path: the results list of analyze_asset_metrics
    raw_scores, \* predict: the raw scores of the forest for one batch
    prediction, \* predict: the normalised scores and flags it returned
    mdet,       \* the global MultiMetricDetector of src/api/multi_metric_routes.py
    alerts,     \* the alert batch of a correlation request
    corr,       \* what find_correlated_alerts returned for it
    supp,       \* what suggest_suppression returned for it
    rootc,      \* what identify_root_cause_alert returned for it
    request,    \* a request to a route that keeps no state between calls
    response    \* what the route returned for it

vars == <<files, now, ret, lastSave, budget, pdet, sdet, adet, afiles,
          spc, sargs, lpc, largs, series, verdicts,
          raw_scores, prediction, mdet, alerts, corr, supp, rootc,
          request, response>>

storeVars == <<files, now, ret, lastSave, budget>>
detVars   == <<pdet, sdet, adet, afiles>>
concVars  == <<spc, sargs, lpc, largs>>
statVars  == <<series, verdicts>>
normVars  == <<raw_scores, prediction>>
multiVars == <<mdet>>
alertVars == <<alerts, corr, supp, rootc>>
callVars  == <<request, response>>
restVars  == <<normVars, multiVars, alertVars, callVars>>

-----------------------------------------------------------------------------
(* Bounds of the model *)

MaxSec == 1          \* the clock runs over seconds 0..MaxSec
MaxOps == 3          \* state-changing calls (save, delete, train) in one run
MaxLen == 11         \* longest metric series of the statistical path

-----------------------------------------------------------------------------
(* Values *)

None == [kind |-> "None"]

\* model names, as token sequences: "cpu" and "cpu_mem"
Names == {<<"cpu">>, <<"cpu", "mem">>}

RECURSIVE SumSeq(_)
SumSeq(s) == IF s = <<>> THEN 0 ELSE Head(s) + SumSeq(Tail(s))

RECURSIVE SumSq(_)
SumSq(s) == IF s = <<>> THEN 0 ELSE Head(s) * Head(s) + SumSq(Tail(s))

SeqMin(s) == CHOOSE m \in {s[i] : i \in DOMAIN s} : \A i \in DOMAIN s : m <= s[i]
SeqMax(s) == CHOOSE m \in {s[i] : i \in DOMAIN s} : \A i \in DOMAIN s : m >= s[i]

Rep(v, n) == [i \in 1..n |-> v]

\* training inputs: 5 points, 10 points, 11 points with one outlier
DataShort == Rep(50, 5)
DataA     == Rep(50, 10)
DataB     == Rep(50, 10) \o <<90>>
TrainingInputs == {DataShort, DataA, DataB}

\* contamination, in percent (0.1)
DefaultContamination == 10

\* sklearn's IsolationForest(contamination, random_state=42, n_estimators=100).fit(X)
IsolationForestFit(X, contamination) ==
    [kind |-> "IsolationForest", X |-> X, contamination |-> contamination,
     random_state |-> 42, n_estimators |-> 100]

\* model.score_samples([[x]])[0] and model.predict([[x]])[0]: functions of the
\* fitted state and the point alone
ScoreSamples(model, x) == [fn |-> "score_samples", model |-> model, x |-> x]
Predict(model, x)      == [fn |-> "predict", model |-> model, x |-> x]

\* get_statistics(data): mean = sum/n, std^2 = (n*sumsq - sum^2)/n^2, kept exact
GetStatistics(data) ==
    IF data = <<>>
    THEN [mean |-> <<0, 1>>, var |-> <<0, 1>>, min |-> 0, max |-> 0]
    ELSE [mean |-> <<SumSeq(data), Len(data)>>,
          var  |-> <<Len(data) * SumSq(data) - SumSeq(data) * SumSeq(data),
                     Len(data) * Len(data)>>,
          min  |-> SeqMin(data), max |-> SeqMax(data)]

\* the models handed to save_model
Models == {IsolationForestFit(DataA, DefaultContamination),
           IsolationForestFit(DataB, DefaultContamination)}

\* the metadata dict PersistentAnomalyDetector.train builds for a model
TrainMetadata(model) ==
    [model_type |-> "IsolationForest", contamination |-> model.contamination,
     data_points |-> Len(model.X), statistics |-> GetStatistics(model.X),
     n_estimators |-> 100]

-----------------------------------------------------------------------------
(* The file system and the serialisers *)

EmptyFS == <<>>

Exists(fs, path) == path \in DOMAIN fs

\* open(path, 'wb') followed by a complete write
WriteFile(fs, path, content) ==
    [p \in (DOMAIN fs) \cup {path} |-> IF p = path THEN content ELSE fs[p]]

\* os.remove(path)
RemoveFile(fs, path) == [p \in (DOMAIN fs) \ {path} |-> fs[p]]

\* a file opened for writing and not written yet
Truncated == [kind |-> "truncated"]

PickleDump(obj) == [kind |-> "pickle", obj |-> obj]
JsonDump(obj)   == [kind |-> "json", obj |-> obj]

\* pickle.load / json.load raise on anything else than a complete dump
CanUnpickle(content) == content.kind = "pickle"
PickleLoad(content)  == content.obj
CanJsonLoad(content) == content.kind = "json"
JsonLoad(content)    == content.obj

\* datetime.utcnow().strftime('%Y%m%d_%H%M%S'): one version id per second
Strftime(t) == "20250101_00000" \o ToString(t)

TimestampVersions == {Strftime(t) : t \in 0..MaxSec}

\* f"{model_name}_{version}.pkl"
ModelFile(model_name, version) == model_name \o <<version, "pkl">>

\* filepath.replace('.pkl', '_metadata.json')
MetadataPathOf(filepath) ==
    SubSeq(filepath, 1, Len(filepath) - 1) \o <<"metadata", "json">>

\* f"{model_name}_latest.pkl"
LatestPath(model_name) == model_name \o <<"latest", "pkl">>


-----------------------------------------------------------------------------
(* ModelStorage *)

NoVersion == ""

\* `if metadata:` is false for None and for an empty dict
EmptyDict == <<>>
Truthy(metadata) == metadata # None /\ DOMAIN metadata # {}

MetadataInputs(model) == {None, EmptyDict, TrainMetadata(model)}

\* save_model, lines 53-61: the metadata file, written only for a truthy dict
SaveMetadataStep(fs, filepath, metadata, t) ==
    IF Truthy(metadata)
    THEN WriteFile(fs, MetadataPathOf(filepath),
                   JsonDump([saved_at |-> t, model_file |-> filepath] @@ metadata))
    ELSE fs

\* save_model, lines 66-68: the old latest file is removed
RemoveLatestStep(fs, model_name) ==
    IF Exists(fs, LatestPath(model_name))
    THEN RemoveFile(fs, LatestPath(model_name))
    ELSE fs

\* save_model, lines 71-73: the version file is copied to the latest file
SaveModelOmitsLatest(fs, model_name, filepath) == fs

CopyToLatestStep(fs, model_name, filepath) ==
    WriteFile(fs, LatestPath(model_name), fs[filepath])

\* save_model: the files after a save that completes at second t
SaveModelFS(fs, model, model_name, metadata, t) ==
    LET filepath == ModelFile(model_name, Strftime(t))
        fs1 == WriteFile(fs, filepath, PickleDump(model))
        fs2 == SaveMetadataStep(fs1, filepath, metadata, t)
        fs3 == RemoveLatestStep(fs2, model_name)
    IN  CopyToLatestStep(fs3, model_name, filepath)

\* load_model: the loaded object, or None (no file, or pickle.load raised)
LoadModelResult(fs, model_name, version) ==
    LET filename == IF version # NoVersion /\ version # "latest"
                    THEN ModelFile(model_name, version)
                    ELSE LatestPath(model_name)
    IN  IF ~Exists(fs, filename) THEN None
        ELSE IF CanUnpickle(fs[filename]) THEN PickleLoad(fs[filename])
        ELSE None

\* delete_model: what it returns
DeleteModelResult(fs, model_name, version) ==
    Exists(fs, ModelFile(model_name, version))

DeleteModelAlsoLatest(fs, model_name, version) ==
    RemoveFile(RemoveFile(RemoveFile(fs, ModelFile(model_name, version)),
                          MetadataPathOf(ModelFile(model_name, version))),
               LatestPath(model_name))

\* delete_model: the files after it
DeleteModelFS(fs, model_name, version) ==
    LET filepath == ModelFile(model_name, version)
    IN  IF Exists(fs, filepath)
        THEN LET fs1 == RemoveFile(fs, filepath)
             IN  IF Exists(fs1, MetadataPathOf(filepath))
                 THEN RemoveFile(fs1, MetadataPathOf(filepath))
                 ELSE fs1
        ELSE fs

\* the tokens of file names in ascending string order (digits sort before
\* letters), as list.sort() compares the names
TokenOrder ==
    [i \in 1..(MaxSec + 1) |-> Strftime(i - 1)]
        \o <<"cpu", "json", "latest", "mem", "metadata", "pkl">>

TokenRank(tok) == CHOOSE i \in DOMAIN TokenOrder : TokenOrder[i] = tok

\* f < g as Python strings
RECURSIVE NameLess(_, _)
NameLess(f, g) ==
    IF g = <<>> THEN FALSE
    ELSE IF f = <<>> THEN TRUE
    ELSE IF Head(f) = Head(g) THEN NameLess(Tail(f), Tail(g))
    ELSE TokenRank(Head(f)) < TokenRank(Head(g))

StartsWith(f, prefix) ==
    Len(f) >= Len(prefix) /\ SubSeq(f, 1, Len(prefix)) = prefix

EndsWith(f, suffix) ==
    Len(f) >= Len(suffix)
        /\ SubSeq(f, Len(f) - Len(suffix) + 1, Len(f)) = suffix

\* load_metadata, lines 140-141: the metadata files whose name starts with
\* model_name
MetadataFilesOf(fs, model_name) ==
    {f \in DOMAIN fs :
        StartsWith(f, model_name) /\ EndsWith(f, <<"metadata", "json">>)}

\* load_metadata: the dict loaded, or None
LoadMetadataResult(fs, model_name, version) ==
    IF version # NoVersion /\ version # "latest"
    THEN LET filename == model_name \o <<version, "metadata", "json">>
         IN  IF Exists(fs, filename) /\ CanJsonLoad(fs[filename])
             THEN JsonLoad(fs[filename]) ELSE None
    ELSE LET metadata_files == MetadataFilesOf(fs, model_name)
         IN  IF metadata_files = {} THEN None
             ELSE LET filename == CHOOSE f \in metadata_files :
                                     \A g \in metadata_files : ~NameLess(f, g)
                  IN  IF CanJsonLoad(fs[filename]) THEN JsonLoad(fs[filename])
                      ELSE None

NoSave == [kind |-> "NoSave"]

\* model_storage.save_model(model, model_name, metadata)
SaveModel(model_name, model, metadata) ==
    /\ budget > 0
    /\ budget' = budget - 1
    /\ files' = SaveModelFS(files, model, model_name, metadata, now)
    /\ ret' = [op |-> "save_model", name |-> model_name,
               result |-> ModelFile(model_name, Strftime(now))]
    /\ lastSave' = [lastSave EXCEPT ![model_name] =
                       [version |-> Strftime(now), model |-> model,
                        deleted |-> FALSE]]
    /\ UNCHANGED <<now, detVars, concVars, statVars, restVars>>

\* model_storage.load_model(model_name, version)
LoadModel(model_name, version) ==
    /\ ret' = [op |-> "load_model",
               result |-> LoadModelResult(files, model_name, version)]
    /\ UNCHANGED <<files, now, lastSave, budget, detVars, concVars, statVars, restVars>>

\* model_storage.delete_model(model_name, version)
DeleteModel(model_name, version) ==
    /\ budget > 0
    /\ budget' = budget - 1
    /\ files' = DeleteModelFS(files, model_name, version)
    /\ ret' = [op |-> "delete_model", name |-> model_name, version |-> version,
               result |-> DeleteModelResult(files, model_name, version)]
    /\ lastSave' = [lastSave EXCEPT ![model_name] =
                       IF /\ lastSave[model_name] # NoSave
                          /\ lastSave[model_name].version = version
                          /\ DeleteModelResult(files, model_name, version)
                       THEN [lastSave[model_name] EXCEPT !.deleted = TRUE]
                       ELSE lastSave[model_name]]
    /\ UNCHANGED <<now, detVars, concVars, statVars, restVars>>

\* a second of wall-clock time passes
Tick ==
    /\ now < MaxSec
    /\ now' = now + 1
    /\ UNCHANGED <<files, ret, lastSave, budget, detVars, concVars, statVars, restVars>>

NoDetector == [kind |-> "NoDetector"]
NoCall == [op |-> "none"]

IdleDet  == pdet = NoDetector /\ sdet = NoDetector /\ adet = NoDetector /\ afiles = <<>>
IdleConc == spc = "idle" /\ lpc = "idle" /\ sargs = None /\ largs = None
IdleStat == series = <<>> /\ verdicts = <<>>
IdleNorm == raw_scores = <<>> /\ prediction = None
IdleMulti == mdet = NoDetector
IdleAlerts == alerts = <<>> /\ corr = None /\ supp = None /\ rootc = None
IdleCall == request = None /\ response = None
IdleRest == IdleNorm /\ IdleMulti /\ IdleAlerts /\ IdleCall

Init ==
    /\ files = EmptyFS
    /\ now = 0
    /\ ret = NoCall
    /\ lastSave = [n \in Names |-> NoSave]
    /\ budget = MaxOps
    /\ IdleDet /\ IdleConc /\ IdleStat /\ IdleRest

Next ==
    \/ Tick
    \/ \E n \in Names, m \in Models : \E md \in MetadataInputs(m) : SaveModel(n, m, md)
    \/ \E n \in Names, v \in TimestampVersions \cup {"latest", NoVersion} : LoadModel(n, v)
    \/ \E n \in Names, v \in TimestampVersions : DeleteModel(n, v)

Spec == Init /\ [][Next]_vars

-----------------------------------------------------------------------------
(* Claims about ModelStorage *)

C2_SaveCreatesFreshVersion ==
    [][\A n \in Names, m \in Models : \A md \in MetadataInputs(m) :
          SaveModel(n, m, md) =>
              /\ ~Exists(files, ModelFile(n, Strftime(now)))
              /\ \A n2 \in Names, v \in TimestampVersions :
                    Exists(files, ModelFile(n2, v)) =>
                        /\ Exists(files', ModelFile(n2, v))
                        /\ files'[ModelFile(n2, v)] = files[ModelFile(n2, v)]
      ]_vars

\* C4: delete_model(name, v) leaves every other version (and its metadata)
\* of that name and every file of every other name unchanged, leaves the
\* result of load_model(name, "latest") unchanged when v is not the version
\* the latest save of that name created, and changes nothing and returns
\* False when the version file does not exist.
C4_DeleteFrame ==
    [][\A n \in Names, v \in TimestampVersions :
          DeleteModel(n, v) =>
              /\ \A n2 \in Names, v2 \in TimestampVersions \cup {"latest"} :
                    (n2 # n \/ (v2 # v /\ v2 # "latest")) =>
                        \A p \in {ModelFile(n2, v2), MetadataPathOf(ModelFile(n2, v2))} :
                            /\ Exists(files', p) <=> Exists(files, p)
                            /\ Exists(files, p) => files'[p] = files[p]
              /\ (lastSave[n] = NoSave \/ lastSave[n].version # v) =>
                    LoadModelResult(files', n, "latest")
                        = LoadModelResult(files, n, "latest")
              /\ ~Exists(files, ModelFile(n, v)) =>
                    (files' = files /\ ret'.result = FALSE)
      ]_vars

\* C4 witness: a delete removed a version of one name while that name's
\* latest file and the files of the other name are still there.
C4_Witness ==
    /\ ret.op = "delete_model" /\ ret.result
    /\ ~Exists(files, ModelFile(ret.name, ret.version))
    /\ Exists(files, LatestPath(ret.name))
    /\ \E n2 \in Names \ {ret.name}, v \in TimestampVersions :
          Exists(files, ModelFile(n2, v))

\* C5 (as claimed): once the version the latest save created is deleted,
\* load_model(name, "latest") finds nothing until the next save of that name.
C5_AliasUndefinedAfterDelete ==
    \A n \in Names :
        (lastSave[n] # NoSave /\ lastSave[n].deleted)
            => LoadModelResult(files, n, "latest") = None


-----------------------------------------------------------------------------
(* save_model and load_model as two processes on one models directory:    *)
(* every file operation of either is one step.                            *)

\* save_model, lines 42-44: timestamp, filename, filepath
SaveBegin(model_name, model, metadata) ==
    /\ spc = "idle"
    /\ spc' = "open_version"
    /\ sargs' = [name |-> model_name, model |-> model, metadata |-> metadata,
                 filepath |-> ModelFile(model_name, Strftime(now)),
                 old |-> lastSave[model_name].model]
    /\ UNCHANGED <<storeVars, lpc, largs, detVars, statVars, restVars>>

\* save_model, line 47: open(filepath, 'wb') creates or truncates the file
SaveOpenVersion ==
    /\ spc = "open_version"
    /\ files' = WriteFile(files, sargs.filepath, Truncated)
    /\ spc' = "dump"
    /\ UNCHANGED <<now, ret, lastSave, budget, sargs, lpc, largs, detVars, statVars, restVars>>

\* save_model, line 48: pickle.dump(model, f), and the file is closed
SaveDump ==
    /\ spc = "dump"
    /\ files' = WriteFile(files, sargs.filepath, PickleDump(sargs.model))
    /\ spc' = "metadata"
    /\ UNCHANGED <<now, ret, lastSave, budget, sargs, lpc, largs, detVars, statVars, restVars>>

\* save_model, lines 53-64
SaveMetadata ==
    /\ spc = "metadata"
    /\ files' = SaveMetadataStep(files, sargs.filepath, sargs.metadata, now)
    /\ spc' = "check_latest"
    /\ UNCHANGED <<now, ret, lastSave, budget, sargs, lpc, largs, detVars, statVars, restVars>>

\* save_model, line 67: if os.path.exists(latest_path)
SaveCheckLatest ==
    /\ spc = "check_latest"
    /\ spc' = IF Exists(files, LatestPath(sargs.name)) THEN "remove_latest"
              ELSE "open_latest"
    /\ UNCHANGED <<storeVars, sargs, lpc, largs, detVars, statVars, restVars>>

\* save_model, line 68: os.remove(latest_path)
SaveRemoveLatest ==
    /\ spc = "remove_latest"
    /\ files' = RemoveFile(files, LatestPath(sargs.name))
    /\ spc' = "open_latest"
    /\ UNCHANGED <<now, ret, lastSave, budget, sargs, lpc, largs, detVars, statVars, restVars>>

\* save_model, lines 71-72: open(latest_path, 'wb') creates the empty file
SaveOpenLatest ==
    /\ spc = "open_latest"
    /\ files' = WriteFile(files, LatestPath(sargs.name), Truncated)
    /\ spc' = "copy"
    /\ UNCHANGED <<now, ret, lastSave, budget, sargs, lpc, largs, detVars, statVars, restVars>>

\* save_model, lines 73-77: dst.write(src.read()), close, return filepath
SaveCopy ==
    /\ spc = "copy"
    /\ files' = CopyToLatestStep(files, sargs.name, sargs.filepath)
    /\ spc' = "done"
    /\ ret' = [op |-> "save_model", name |-> sargs.name, result |-> sargs.filepath]
    /\ lastSave' = [lastSave EXCEPT ![sargs.name] =
                       [version |-> sargs.filepath[Len(sargs.filepath) - 1],
                        model |-> sargs.model, deleted |-> FALSE]]
    /\ UNCHANGED <<now, budget, sargs, lpc, largs, detVars, statVars, restVars>>

\* load_model(model_name, 'latest'), lines 99-104: the file name
LoadBegin(model_name) ==
    /\ lpc = "idle"
    /\ lpc' = "exists"
    /\ largs' = [name |-> model_name, filepath |-> LatestPath(model_name),
                 result |-> None]
    /\ UNCHANGED <<storeVars, spc, sargs, detVars, statVars, restVars>>

\* load_model, lines 106-108: if not os.path.exists(filepath): return None
LoadCheckExists ==
    /\ lpc = "exists"
    /\ lpc' = IF Exists(files, largs.filepath) THEN "read" ELSE "done"
    /\ UNCHANGED <<storeVars, largs, spc, sargs, detVars, statVars, restVars>>

\* load_model, lines 110-118: open and pickle.load; any exception (the file
\* gone since the check, or not a complete pickle) is caught and gives None
LoadRead ==
    /\ lpc = "read"
    /\ lpc' = "done"
    /\ largs' = [largs EXCEPT !.result =
                    IF Exists(files, largs.filepath) /\ CanUnpickle(files[largs.filepath])
                    THEN PickleLoad(files[largs.filepath])
                    ELSE None]
    /\ UNCHANGED <<storeVars, spc, sargs, detVars, statVars, restVars>>

\* every model name already has a latest version, saved at second 0
InitConc ==
    /\ \E old \in [Names -> Models] :
          /\ files = SaveModelFS(
                       SaveModelFS(EmptyFS, old[<<"cpu">>], <<"cpu">>,
                                   TrainMetadata(old[<<"cpu">>]), 0),
                       old[<<"cpu", "mem">>], <<"cpu", "mem">>,
                       TrainMetadata(old[<<"cpu", "mem">>]), 0)
          /\ lastSave = [n \in Names |->
                            [version |-> Strftime(0), model |-> old[n],
                             deleted |-> FALSE]]
    /\ now = 0
    /\ ret = NoCall
    /\ budget = 0
    /\ IdleDet /\ IdleConc /\ IdleStat /\ IdleRest

NextConc ==
    \/ Tick
    \/ \E n \in Names, m \in Models : \E md \in MetadataInputs(m) : SaveBegin(n, m, md)
    \/ SaveOpenVersion
    \/ SaveDump
    \/ SaveMetadata
    \/ SaveCheckLatest
    \/ SaveRemoveLatest
    \/ SaveOpenLatest
    \/ SaveCopy
    \/ \E n \in Names : LoadBegin(n)
    \/ LoadCheckExists
    \/ LoadRead

SpecConc == InitConc /\ [][NextConc]_vars

\* C3 (as claimed): a load_model(name, "latest") that runs while one
\* save_model runs, for a name that already has a latest version, returns
\* the complete old model or the complete new model, never nothing.
C3_ReaderSeesOldOrNew ==
    lpc = "done" =>
        largs.result \in
            {lastSave[largs.name].model}
            \cup (IF sargs # None /\ sargs.name = largs.name
                  THEN {sargs.old, sargs.model} ELSE {})


-----------------------------------------------------------------------------
(* The detectors *)

\* verdict fields are terms: a constant, or a function of the forest
Const(v) == [const |-> v]

\* prediction == -1
IsOutlier(model, x) == [fn |-> "eq", lhs |-> Predict(model, x), rhs |-> -1]

\* min(max(abs(score) / 2.0, 0.0), 1.0)
Confidence(model, x) == [fn |-> "clamp01_abs_half", arg |-> ScoreSamples(model, x)]

\* the values given to detect
DetectValues == {50, 90}

(* PersistentAnomalyDetector *)

\* __init__ and _load_model: a detector starts with the latest stored model of
\* its name, if load_model returns one
NewPersistentDetector(fs, model_name) ==
    LET loaded_model == LoadModelResult(fs, model_name, "latest")
        metadata == LoadMetadataResult(fs, model_name, "latest")
    IN  IF loaded_model # None
        THEN [model_name |-> model_name, contamination |-> DefaultContamination,
              model |-> loaded_model, is_trained |-> TRUE,
              training_data_stats |->
                  IF Truthy(metadata) /\ "statistics" \in DOMAIN metadata
                  THEN metadata.statistics ELSE EmptyDict]
        ELSE [model_name |-> model_name, contamination |-> DefaultContamination,
              model |-> None, is_trained |-> FALSE,
              training_data_stats |-> EmptyDict]

\* train, lines 81-86: the minimum number of points
MinTrainingPoints == 10

\* train, lines 88-104: the detector after train(data)
PersistentTrained(det, data) ==
    IF Len(data) < MinTrainingPoints THEN det
    ELSE [det EXCEPT !.model = IsolationForestFit(data, det.contamination),
                     !.is_trained = TRUE,
                     !.training_data_stats = GetStatistics(data)]

PersistentTrainNeverSaves(fs, det, data, auto_save, t) == fs

\* train, lines 106-120: the files after train(data, auto_save)
PersistentTrainFS(fs, det, data, auto_save, t) ==
    IF Len(data) >= MinTrainingPoints /\ auto_save
    THEN SaveModelFS(fs, PersistentTrained(det, data).model, det.model_name,
                     TrainMetadata(PersistentTrained(det, data).model), t)
    ELSE fs

\* train: the dict it returns
PersistentTrainResult(det, data, auto_save) ==
    IF Len(data) < MinTrainingPoints
    THEN [success |-> FALSE, error |-> "Need at least 10 data points"]
    ELSE [success |-> TRUE, data_points |-> Len(data),
          statistics |-> GetStatistics(data), model_saved |-> auto_save]

\* detect(value)
PersistentDetectResult(det, value) ==
    IF ~det.is_trained
    THEN [is_anomaly |-> Const(FALSE), score |-> Const(0),
          confidence |-> Const(0), reason |-> Const("Model not trained")]
    ELSE [is_anomaly |-> IsOutlier(det.model, value),
          score |-> ScoreSamples(det.model, value),
          confidence |-> Confidence(det.model, value),
          reason |-> [fn |-> "reason_of", is_anomaly |-> IsOutlier(det.model, value)]]

\* PersistentAnomalyDetector(model_name=...), as the routes construct one per
\* request
PNew(model_name) ==
    /\ pdet' = NewPersistentDetector(files, model_name)
    /\ ret' = [op |-> "pnew", raised |-> "none"]
    /\ UNCHANGED <<files, now, lastSave, budget, sdet, adet, afiles,
                   concVars, statVars, restVars>>

PTrain(data, auto_save) ==
    /\ pdet # NoDetector
    /\ budget > 0
    /\ budget' = budget - 1
    /\ pdet' = PersistentTrained(pdet, data)
    /\ files' = PersistentTrainFS(files, pdet, data, auto_save, now)
    /\ ret' = [op |-> "ptrain", raised |-> "none",
               result |-> PersistentTrainResult(pdet, data, auto_save)]
    /\ lastSave' = IF Len(data) >= MinTrainingPoints /\ auto_save
                   THEN [lastSave EXCEPT ![pdet.model_name] =
                            [version |-> Strftime(now),
                             model |-> PersistentTrained(pdet, data).model,
                             deleted |-> FALSE]]
                   ELSE lastSave
    /\ UNCHANGED <<now, sdet, adet, afiles, concVars, statVars, restVars>>

PDetect(value) ==
    /\ pdet # NoDetector
    /\ ret' = [op |-> "pdetect", raised |-> "none",
               result |-> PersistentDetectResult(pdet, value)]
    /\ UNCHANGED <<files, now, lastSave, budget, detVars, concVars, statVars, restVars>>

(* AnomalyDetector of src/models/anomaly_detector.py *)

UnfittedForest(contamination) ==
    [kind |-> "IsolationForest", contamination |-> contamination,
     random_state |-> 42, n_estimators |-> 100]

\* anomaly_detector = AnomalyDetector(contamination=0.1)
SrcNewDetector ==
    [model |-> UnfittedForest(DefaultContamination), is_trained |-> FALSE]

\* train(data): returns None on both paths
SrcTrained(det, data) ==
    IF Len(data) < MinTrainingPoints THEN det
    ELSE [det EXCEPT !.model = IsolationForestFit(data, det.model.contamination),
                     !.is_trained = TRUE]

\* detect(value)
SrcDetectResult(det, value) ==
    IF ~det.is_trained
    THEN [is_anomaly |-> Const(FALSE), score |-> Const(0),
          confidence |-> Const(0), reason |-> Const("Model not trained")]
    ELSE [is_anomaly |-> IsOutlier(det.model, value),
          score |-> ScoreSamples(det.model, value),
          confidence |-> Confidence(det.model, value),
          reason |-> [fn |-> "reason_of", is_anomaly |-> IsOutlier(det.model, value)]]

STrain(data) ==
    /\ budget > 0
    /\ budget' = budget - 1
    /\ sdet' = SrcTrained(sdet, data)
    /\ ret' = [op |-> "strain", raised |-> "none", result |-> None]
    /\ UNCHANGED <<files, now, lastSave, pdet, adet, afiles, concVars, statVars, restVars>>

SDetect(value) ==
    /\ ret' = [op |-> "sdetect", raised |-> "none",
               result |-> SrcDetectResult(sdet, value)]
    /\ UNCHANGED <<files, now, lastSave, budget, detVars, concVars, statVars, restVars>>

(* AnomalyDetector of app/services/anomaly_detection.py *)

\* settings.ANOMALY_THRESHOLD (0.7), in tenths, and
\* settings.ANOMALY_CONTAMINATION (0.1), in percent
AnomalyThreshold == 7
AnomalyContamination == 10

AppModelFile  == <<"anomaly_detection_model", "pkl">>
AppScalerFile == <<"anomaly_detection_scaler", "pkl">>

JoblibDump(obj) == [kind |-> "joblib", obj |-> obj]
CanJoblibLoad(content) == content.kind = "joblib"
JoblibLoad(content) == content.obj

UnfittedScaler == [kind |-> "StandardScaler"]
ScalerFit(X) == [kind |-> "StandardScaler", fitted_on |-> X]
ScalerTransform(scaler, X) == [fn |-> "transform", scaler |-> scaler, X |-> X]

AppLoadOmitsScaler(det, afs) ==
    IF ~Exists(afs, AppModelFile) \/ ~Exists(afs, AppScalerFile) THEN det
    ELSE [det EXCEPT !.model = JoblibLoad(afs[AppModelFile]), !.is_trained = TRUE]

\* load_model(): both files, or nothing
AppLoadModel(det, afs) ==
    IF ~Exists(afs, AppModelFile) \/ ~Exists(afs, AppScalerFile) THEN det
    ELSE IF ~CanJoblibLoad(afs[AppModelFile]) \/ ~CanJoblibLoad(afs[AppScalerFile])
    THEN det
    ELSE [det EXCEPT !.model = JoblibLoad(afs[AppModelFile]),
                     !.scaler = JoblibLoad(afs[AppScalerFile]),
                     !.is_trained = TRUE]

\* __init__
AppNewDetector(afs) ==
    AppLoadModel([model |-> None, scaler |-> UnfittedScaler, is_trained |-> FALSE,
                  contamination |-> AnomalyContamination,
                  threshold |-> AnomalyThreshold], afs)

\* contamination: Optional[float] = None
NoContamination == [given |-> FALSE]
ContaminationInputs == {NoContamination, [given |-> TRUE, value |-> 20]}

\* train, lines 53-71: no check of the number of samples
AppTrained(det, training_data, contamination) ==
    LET c == IF ~contamination.given THEN det.contamination
             ELSE contamination.value
        scaler == ScalerFit(training_data)
    IN  [det EXCEPT !.scaler = scaler,
                    !.model = IsolationForestFit(
                                  ScalerTransform(scaler, training_data), c),
                    !.is_trained = TRUE]

\* save_model()
AppSaveModel(det, afs) ==
    IF ~det.is_trained THEN afs
    ELSE WriteFile(WriteFile(afs, AppModelFile, JoblibDump(det.model)),
                   AppScalerFile, JoblibDump(det.scaler))

\* predict(data): the normalised scores and flags, a function of the raw
\* scores of the scaled data and of the threshold
AppPredictResult(det, data) ==
    [fn |-> "normalize_and_threshold",
     raw_scores |-> ScoreSamples(det.model, ScalerTransform(det.scaler, data)),
     threshold |-> det.threshold]

\* the rows given to predict
PredictInputs == {DataB}

\* the module is imported again (a restart): anomaly_detector = AnomalyDetector()
ANew ==
    /\ adet' = AppNewDetector(afiles)
    /\ ret' = [op |-> "anew", raised |-> "none"]
    /\ UNCHANGED <<files, now, lastSave, budget, pdet, sdet, afiles,
                   concVars, statVars, restVars>>

ATrain(training_data, contamination) ==
    /\ budget > 0
    /\ budget' = budget - 1
    /\ adet' = AppTrained(adet, training_data, contamination)
    /\ afiles' = AppSaveModel(AppTrained(adet, training_data, contamination), afiles)
    /\ ret' = [op |-> "atrain", raised |-> "none",
               result |-> [samples_trained |-> Len(training_data),
                           contamination |->
                               AppTrained(adet, training_data,
                                          contamination).model.contamination]]
    /\ UNCHANGED <<files, now, lastSave, pdet, sdet, concVars, statVars, restVars>>

APredict(data) ==
    /\ ret' = IF ~adet.is_trained
              THEN [op |-> "apredict", raised |-> "ValueError"]
              ELSE [op |-> "apredict", raised |-> "none",
                    result |-> AppPredictResult(adet, data)]
    /\ UNCHANGED <<files, now, lastSave, budget, detVars, concVars, statVars, restVars>>

InitDet ==
    /\ files = EmptyFS
    /\ now = 0
    /\ ret = NoCall
    /\ lastSave = [n \in Names |-> NoSave]
    /\ budget = MaxOps
    /\ pdet = NoDetector
    /\ sdet = SrcNewDetector
    /\ afiles = EmptyFS
    /\ adet = AppNewDetector(EmptyFS)
    /\ IdleConc /\ IdleStat /\ IdleRest

NextDet ==
    \/ Tick
    \/ \E n \in Names : PNew(n)
    \/ \E d \in TrainingInputs, a \in BOOLEAN : PTrain(d, a)
    \/ \E x \in DetectValues : PDetect(x)
    \/ \E d \in {DataShort, DataA} : STrain(d)
    \/ \E x \in DetectValues : SDetect(x)
    \/ ANew
    \/ \E d \in {DataShort, DataB}, c \in ContaminationInputs : ATrain(d, c)
    \/ \E d \in PredictInputs : APredict(d)

SpecDet == InitDet /\ [][NextDet]_vars

-----------------------------------------------------------------------------
(* Claims about the detectors *)

\* C6: a saved model, loaded again, gives the same verdict on every input as
\* the model that was saved: a detector constructed from the files that a
\* successful train has written answers detect/predict as the trained one does
C6_RoundTripFidelity ==
    /\ (ret.op = "ptrain" /\ ret.result.success /\ ret.result.model_saved) =>
           \A x \in DetectValues :
               PersistentDetectResult(
                   NewPersistentDetector(files, pdet.model_name), x)
               = PersistentDetectResult(pdet, x)
    /\ (ret.op = "atrain" /\ ret.raised = "none") =>
           \A d \in TrainingInputs :
               AppPredictResult(AppNewDetector(afiles), d)
               = AppPredictResult(adet, d)

\* a model trained with its own contamination has been saved with its scaler,
\* over the files of an earlier training, and loads as a trained detector
C6_Witness ==
    /\ ret.op = "atrain"
    /\ adet.model.contamination = 20
    /\ adet.scaler = ScalerFit(DataB)
    /\ AppNewDetector(afiles).is_trained
    /\ budget < MaxOps - 1

\* a call of train reports its failure: it raises, or returns success = False
ReportsFailure(r) ==
    \/ r.raised # "none"
    \/ r.op = "ptrain" /\ ~r.result.success

\* C7: train with fewer than 10 samples fails, the failure is reported to the
\* caller, and the detector is as trained after the call as it was before
C7_ShortTrainFails ==
    [][\A d \in TrainingInputs : Len(d) < MinTrainingPoints =>
          /\ (\E a \in BOOLEAN : PTrain(d, a)) =>
                 ReportsFailure(ret') /\ pdet'.is_trained = pdet.is_trained
          /\ STrain(d) =>
                 ReportsFailure(ret') /\ sdet'.is_trained = sdet.is_trained
          /\ (\E c \in ContaminationInputs : ATrain(d, c)) =>
                 ReportsFailure(ret') /\ adet'.is_trained = adet.is_trained
      ]_vars

\* C8: detect or predict on a detector that has neither been trained nor
\* loaded a model raises, and returns no verdict
C8_UntrainedDetectRaises ==
    [][/\ \A x \in DetectValues :
              /\ (PDetect(x) /\ ~pdet.is_trained) => ret'.raised # "none"
              /\ (SDetect(x) /\ ~sdet.is_trained) => ret'.raised # "none"
       /\ \A d \in PredictInputs :
              (APredict(d) /\ ~adet.is_trained) => ret'.raised # "none"
      ]_vars

\* what C9 promises after a training of detector pdet
PersistedAndTrained ==
    /\ pdet.is_trained
    /\ Exists(files, LatestPath(pdet.model_name))
    /\ NewPersistentDetector(files, pdet.model_name).is_trained
    /\ NewPersistentDetector(files, pdet.model_name).model = pdet.model

-----------------------------------------------------------------------------
(* The statistical path of analyze_asset_metrics *)

\* the values of the samples of one metric
SampleValues == {1, 10}

\* detect_statistical_anomalies(data, method="zscore", threshold=3.0)
ZScoreThreshold == 3

\* analyze_asset_metrics: a metric with fewer samples is skipped
MinAnalysisSamples == 10

\* For sample i of data, with n = len, S = sum and Q = sum of squares:
\* value - mean = Deviation / n and std^2 = Spread / n^2, so that
\* z^2 = Deviation^2 / Spread. The arithmetic is exact.
Deviation(data, i) == Len(data) * data[i] - SumSeq(data)
Spread(data) == Len(data) * SumSq(data) - SumSeq(data) * SumSeq(data)

\* detect_statistical_anomalies: the boolean array, z_scores > threshold
DetectStatisticalAnomalies(data) ==
    [i \in 1..Len(data) |->
        IF Len(data) < 3 THEN FALSE
        ELSE IF Spread(data) = 0 THEN FALSE
        ELSE Deviation(data, i) * Deviation(data, i)
                 > ZScoreThreshold * ZScoreThreshold * Spread(data)]

StatisticalScoreClamped(data, i) == <<1, 1>>

\* score = min(z_score / 5.0, 1.0) if std > 0 else 0.0; the square of the
\* score, as a fraction <<numerator, denominator>>
StatisticalScoreSq(data, i) ==
    IF Spread(data) > 0
    THEN IF Deviation(data, i) * Deviation(data, i) >= 25 * Spread(data)
         THEN <<1, 1>>
         ELSE <<Deviation(data, i) * Deviation(data, i), 25 * Spread(data)>>
    ELSE <<0, 1>>

\* the dict appended to results for sample i
StatisticalVerdict(data, i) ==
    [value |-> data[i], scoreSq |-> StatisticalScoreSq(data, i),
     isAnomaly |-> TRUE, threshold |-> AnomalyThreshold,
     method |-> "statistical"]

RECURSIVE StatisticalResults(_, _)
\* for idx in np.where(is_anomaly)[0]: results.append(...), from sample i on
StatisticalResults(data, i) ==
    IF i > Len(data) THEN <<>>
    ELSE IF DetectStatisticalAnomalies(data)[i]
    THEN <<StatisticalVerdict(data, i)>> \o StatisticalResults(data, i + 1)
    ELSE StatisticalResults(data, i + 1)

\* analyze_asset_metrics(asset, metrics) for the samples of one metric, on the
\* statistical branch (use_ml is off, or the detector is not trained)
AnalyzeAssetMetrics(values) ==
    IF Len(values) < MinAnalysisSamples THEN <<>>
    ELSE StatisticalResults(values, 1)

\* one more sample of the metric is collected
AddMetric(v) ==
    /\ Len(series) < MaxLen
    /\ series' = Append(series, v)
    /\ UNCHANGED <<verdicts, storeVars, detVars, concVars, restVars>>

Analyze ==
    /\ verdicts' = AnalyzeAssetMetrics(series)
    /\ UNCHANGED <<series, storeVars, detVars, concVars, restVars>>

InitStat ==
    /\ files = EmptyFS
    /\ now = 0
    /\ ret = NoCall
    /\ lastSave = [n \in Names |-> NoSave]
    /\ budget = 0
    /\ IdleDet /\ IdleConc /\ IdleStat /\ IdleRest

NextStat ==
    \/ \E v \in SampleValues : AddMetric(v)
    \/ Analyze

SpecStat == InitStat /\ [][NextStat]_vars

\* score > threshold, for the squared score <<num, den>> and the threshold in
\* tenths
ScoreAbove(scoreSq, threshold) ==
    100 * scoreSq[1] > threshold * threshold * scoreSq[2]

\* C10: every verdict of the z-score path has a score within [0, 1] and is an
\* anomaly exactly when its score is greater than the threshold it reports
C10_StatisticalVerdictConsistent ==
    \A k \in 1..Len(verdicts) :
        /\ 0 <= verdicts[k].scoreSq[1]
        /\ verdicts[k].scoreSq[1] <= verdicts[k].scoreSq[2]
        /\ verdicts[k].isAnomaly
               = ScoreAbove(verdicts[k].scoreSq, verdicts[k].threshold)

-----------------------------------------------------------------------------
(* predict: the normalisation of the raw scores of one batch *)

\* the longest batch, and the raw scores score_samples may give a row
MaxBatch == 3
RawValues == {-10, -8, -4, -1}

BatchInputs == UNION {[1..k -> RawValues] : k \in 0..MaxBatch}

NormalizedScoreNotInverted(raw, i) ==
    IF SeqMax(raw) - SeqMin(raw) = 0 THEN <<0, 1>>
    ELSE <<raw[i] - SeqMin(raw), SeqMax(raw) - SeqMin(raw)>>

\* anomaly_scores[i] = 1 - (raw_scores[i] - min_score) / (max_score - min_score),
\* or 0 when max_score - min_score == 0; a fraction <<numerator, denominator>>
NormalizedScore(raw, i) ==
    IF SeqMax(raw) - SeqMin(raw) = 0 THEN <<0, 1>>
    ELSE <<(SeqMax(raw) - SeqMin(raw)) - (raw[i] - SeqMin(raw)),
           SeqMax(raw) - SeqMin(raw)>>

\* score > threshold, for a score <<num, den>> and the threshold in tenths
AboveThreshold(score, threshold) == 10 * score[1] > threshold * score[2]

\* predict, lines 116-132, given the raw scores of the scaled batch; np.min of
\* an empty batch raises ValueError, which predict raises again
NormalizeAndThreshold(raw, threshold) ==
    IF raw = <<>> THEN [kind |-> "raised", error |-> "ValueError"]
    ELSE [kind |-> "result",
          anomaly_scores |-> [i \in 1..Len(raw) |-> NormalizedScore(raw, i)],
          is_anomaly |-> [i \in 1..Len(raw) |->
                             AboveThreshold(NormalizedScore(raw, i), threshold)]]

\* predict(data) on a trained detector whose forest scores the batch raw_scores
PredictBatch ==
    /\ prediction' = NormalizeAndThreshold(raw_scores, AnomalyThreshold)
    /\ UNCHANGED <<raw_scores, storeVars, detVars, concVars, statVars,
                   multiVars, alertVars, callVars>>

InitNorm ==
    /\ files = EmptyFS
    /\ now = 0
    /\ ret = NoCall
    /\ lastSave = [n \in Names |-> NoSave]
    /\ budget = 0
    /\ IdleDet /\ IdleConc /\ IdleStat /\ IdleMulti /\ IdleAlerts /\ IdleCall
    /\ raw_scores \in BatchInputs
    /\ prediction = None

NextNorm == PredictBatch

SpecNorm == InitNorm /\ [][NextNorm]_vars

\* C11: for every batch predicted, every normalised score is within [0, 1];
\* when the raw scores are not all equal the lowest raw score gets 1 and the
\* highest gets 0; when they are all equal every score is 0; and each point is
\* flagged exactly when its normalised score is greater than the threshold
C11_NormalizedScores ==
    prediction.kind = "result" =>
        \A i \in 1..Len(raw_scores) :
            LET score == prediction.anomaly_scores[i]
                equal == \A j \in 1..Len(raw_scores) : raw_scores[j] = raw_scores[1]
            IN  /\ score[2] > 0 /\ 0 <= score[1] /\ score[1] <= score[2]
                /\ (~equal /\ raw_scores[i] = SeqMin(raw_scores)) => score[1] = score[2]
                /\ (~equal /\ raw_scores[i] = SeqMax(raw_scores)) => score[1] = 0
                /\ equal => score[1] = 0
                /\ prediction.is_anomaly[i]
                       = (10 * score[1] > AnomalyThreshold * score[2])

\* a batch with a point flagged below the top score and a point of the
\* bottom score, not flagged
C11_Witness ==
    /\ prediction.kind = "result"
    /\ \E i, j \in 1..Len(raw_scores) :
           /\ prediction.is_anomaly[i]
           /\ prediction.anomaly_scores[i][1] < prediction.anomaly_scores[i][2]
           /\ ~prediction.is_anomaly[j]
           /\ prediction.anomaly_scores[j][1] = 0

-----------------------------------------------------------------------------
(* The statistical path on series of one level with one last value *)

\* the longest run of equal values before the last value
MaxRun == 19

\* [level] * k + [last]
ScenarioSeries ==
    {Rep(level, k) \o <<last>> :
        level \in {50, 60}, last \in {50, 100, 200, 500}, k \in 0..MaxRun}

\* [50] * 19 + [500]
Scenario == Rep(50, 19) \o <<500>>

InitScenario ==
    /\ files = EmptyFS
    /\ now = 0
    /\ ret = NoCall
    /\ lastSave = [n \in Names |-> NoSave]
    /\ budget = 0
    /\ IdleDet /\ IdleConc /\ IdleRest
    /\ series \in ScenarioSeries
    /\ verdicts = <<>>

NextScenario == Analyze

SpecScenario == InitScenario /\ [][NextScenario]_vars

\* in [50] * 19 + [500] the z-score path flags the last sample (index 19 of
\* the array, the 20th value) and no other
OnlyLastFlagged ==
    \A i \in 1..Len(Scenario) :
        DetectStatisticalAnomalies(Scenario)[i] <=> (i = 20)

\* C12 as stated: for [50] * 19 + [500] the z-score path flags index 19 and no
\* other index, and the score min(|z| / 5, 1.0) reported for it is clamped to 1.0
C12_ScenarioClamped ==
    (series = Scenario /\ verdicts # <<>>) =>
        /\ OnlyLastFlagged
        /\ Len(verdicts) = 1
        /\ verdicts[1].value = 500
        /\ verdicts[1].scoreSq[1] = verdicts[1].scoreSq[2]

\* C12 amended: for [50] * 19 + [500] the z-score path flags index 19 and no
\* other index, and the score reported for it is min(|z| / 5, 1.0) with
\* z = sqrt(19), that is sqrt(19) / 5 (about 0.872), which the clamp leaves as
\* it is: the square of the score is 19 / 25
C12_ScenarioScore ==
    (series = Scenario /\ verdicts # <<>>) =>
        /\ OnlyLastFlagged
        /\ Len(verdicts) = 1
        /\ verdicts[1].value = 500
        /\ 25 * verdicts[1].scoreSq[1] = 19 * verdicts[1].scoreSq[2]

\* the scenario has been analysed and has given a verdict
C12_Witness ==
    /\ series = Scenario
    /\ Len(verdicts) = 1
    /\ verdicts[1].method = "statistical"

-----------------------------------------------------------------------------
(* MultiMetricDetector *)

\* the metric names of the requests, in the order the requests list them
MetricOrder == <<"cpu", "mem">>
MetricNames == {MetricOrder[i] : i \in 1..Len(MetricOrder)}

\* metrics_data: Dict[str, List[float]] and metric_values: Dict[str, float]
MetricsDataInputs ==
    UNION {[S -> {Rep(50, 9), DataA, DataB}] : S \in SUBSET MetricNames}
MetricValuesInputs == UNION {[S -> DetectValues] : S \in SUBSET MetricNames}

\* list(d.keys())
KeysOf(d) == SelectSeq(MetricOrder, LAMBDA n : n \in DOMAIN d)

\* set(names)
SetOf(names) == {names[i] : i \in 1..Len(names)}

\* multi_metric_detector = MultiMetricDetector(contamination=0.1)
MultiNewDetector ==
    [contamination |-> DefaultContamination, model |-> None, is_trained |-> FALSE,
     metric_names |-> <<>>, training_stats |-> <<>>]

\* train, lines 38-56: the error of the validation, "" when it passes
MultiTrainError(metrics_data) ==
    IF DOMAIN metrics_data = {} THEN "No metrics data provided"
    ELSE IF Cardinality({Len(metrics_data[n]) : n \in DOMAIN metrics_data}) > 1
    THEN "All metrics must have same number of data points"
    ELSE IF Len(metrics_data[KeysOf(metrics_data)[1]]) < 10
    THEN "Need at least 10 data points per metric"
    ELSE ""

\* np.column_stack([metrics_data[name] for name in self.metric_names])
ColumnStack(metrics_data) ==
    [i \in 1..Len(KeysOf(metrics_data)) |-> metrics_data[KeysOf(metrics_data)[i]]]

\* train, lines 58-82: the detector after train(metrics_data); the statistics
\* of the metrics of this call are written into the dict kept from before
MultiTrained(det, metrics_data) ==
    IF MultiTrainError(metrics_data) # "" THEN det
    ELSE [det EXCEPT
             !.metric_names = KeysOf(metrics_data),
             !.model = IsolationForestFit(ColumnStack(metrics_data),
                                          det.contamination),
             !.is_trained = TRUE,
             !.training_stats =
                 [n \in DOMAIN det.training_stats \cup DOMAIN metrics_data |->
                     IF n \in DOMAIN metrics_data
                     THEN GetStatistics(metrics_data[n])
                     ELSE det.training_stats[n]]]

\* train: the dict it returns
MultiTrainResult(det, metrics_data) ==
    IF MultiTrainError(metrics_data) # ""
    THEN [success |-> FALSE, error |-> MultiTrainError(metrics_data)]
    ELSE [success |-> TRUE, metrics |-> KeysOf(metrics_data),
          data_points |-> Len(metrics_data[KeysOf(metrics_data)[1]]),
          statistics |-> MultiTrained(det, metrics_data).training_stats]

\* z_score = abs((value - mean) / std) if std > 0 else 0; z_score > 3, with
\* mean = S / n and std^2 = V / n^2 as get_statistics keeps them
ZScoreAbove3(stats, value) ==
    /\ stats.var[1] > 0
    /\ (stats.mean[2] * value - stats.mean[1])
           * (stats.mean[2] * value - stats.mean[1]) > 9 * stats.var[1]

\* detect, lines 135-149: the entries of anomalous_metrics
AnomalousMetrics(det, metric_values) ==
    LET flagged == SelectSeq(det.metric_names,
                       LAMBDA n : ZScoreAbove3(det.training_stats[n], metric_values[n]))
    IN  [i \in 1..Len(flagged) |->
            [metric |-> flagged[i], value |-> metric_values[flagged[i]]]]

\* the row scored: [[metric_values[name] for name in self.metric_names]]
DataPoint(det, metric_values) ==
    [i \in 1..Len(det.metric_names) |-> metric_values[det.metric_names[i]]]

\* detect(metric_values), where model.predict gives label for the row
MultiDetectResult(det, metric_values, label) ==
    IF ~det.is_trained
    THEN [is_anomaly |-> FALSE, reason |-> "Model not trained"]
    ELSE IF DOMAIN metric_values # SetOf(det.metric_names)
    THEN [is_anomaly |-> FALSE, reason |-> "Expected metrics",
          expected |-> det.metric_names]
    ELSE [is_anomaly |-> (label = -1),
          score |-> ScoreSamples(det.model, DataPoint(det, metric_values)),
          confidence |-> [fn |-> "min1_abs_half",
                          arg |-> ScoreSamples(det.model,
                                               DataPoint(det, metric_values))],
          anomalous_metrics |-> AnomalousMetrics(det, metric_values),
          reason |-> IF label = -1 THEN "Multivariate anomaly detected"
                     ELSE "Within normal pattern"]

\* max(0, min(100, health_score))
Clamp100(x) == IF x < 0 THEN 0 ELSE IF x > 100 THEN 100 ELSE x

HealthStatus(health_score) ==
    IF health_score >= 80 THEN "healthy"
    ELSE IF health_score >= 60 THEN "warning"
    ELSE IF health_score >= 40 THEN "degraded"
    ELSE "critical"

\* len(detection.get("anomalous_metrics", []))
AnomalousCount(detection) ==
    IF "anomalous_metrics" \in DOMAIN detection
    THEN Len(detection.anomalous_metrics) ELSE 0

\* health_score after lines 241-252
HealthScore(detection) ==
    Clamp100(100 - (IF detection.is_anomaly THEN 30 ELSE 0)
                 - AnomalousCount(detection) * 15)

\* calculate_composite_health(metric_values): detection["confidence"] is a
\* KeyError when detect returned without a confidence, and the except branch
\* returns the error dict
MultiHealthResult(det, metric_values, label) ==
    IF ~det.is_trained
    THEN [health_score |-> 0, status |-> "unknown", reason |-> "Model not trained"]
    ELSE LET detection == MultiDetectResult(det, metric_values, label)
         IN  IF "confidence" \notin DOMAIN detection
             THEN [health_score |-> 0, status |-> "error", reason |-> "'confidence'"]
             ELSE [health_score |-> HealthScore(detection),
                   status |-> HealthStatus(HealthScore(detection)),
                   is_anomaly |-> detection.is_anomaly,
                   anomalous_metrics_count |-> AnomalousCount(detection),
                   confidence |-> detection.confidence]

MTrain(metrics_data) ==
    /\ mdet' = MultiTrained(mdet, metrics_data)
    /\ ret' = [op |-> "mtrain", raised |-> "none",
               result |-> MultiTrainResult(mdet, metrics_data)]
    /\ UNCHANGED <<files, now, lastSave, budget, detVars, concVars, statVars,
                   normVars, alertVars, callVars>>

MDetect(metric_values, label) ==
    /\ ret' = [op |-> "mdetect", raised |-> "none",
               result |-> MultiDetectResult(mdet, metric_values, label)]
    /\ UNCHANGED <<files, now, lastSave, budget, detVars, concVars, statVars,
                   restVars>>

MHealth(metric_values, label) ==
    /\ ret' = [op |-> "mhealth", raised |-> "none",
               result |-> MultiHealthResult(mdet, metric_values, label)]
    /\ UNCHANGED <<files, now, lastSave, budget, detVars, concVars, statVars,
                   restVars>>

InitMulti ==
    /\ files = EmptyFS
    /\ now = 0
    /\ ret = NoCall
    /\ lastSave = [n \in Names |-> NoSave]
    /\ budget = 0
    /\ IdleDet /\ IdleConc /\ IdleStat /\ IdleNorm /\ IdleAlerts /\ IdleCall
    /\ mdet = MultiNewDetector

NextMulti ==
    \/ \E d \in MetricsDataInputs : MTrain(d)
    \/ \E v \in MetricValuesInputs, p \in {-1, 1} : MDetect(v, p)
    \/ \E v \in MetricValuesInputs, p \in {-1, 1} : MHealth(v, p)

SpecMulti == InitMulti /\ [][NextMulti]_vars

\* the three requirements of a multivariate train
ValidMetricSet(metrics_data) ==
    /\ Cardinality(DOMAIN metrics_data) >= 2
    /\ \A n, m \in DOMAIN metrics_data : Len(metrics_data[n]) = Len(metrics_data[m])
    /\ \A n \in DOMAIN metrics_data : Len(metrics_data[n]) >= 10

\* C13: a multivariate train succeeds exactly when the input has at least 2
\* named metrics, all of the same length, each of at least 10 samples;
\* otherwise it is rejected with an error and the detector is as trained
\* after the call as it was before
C13_MultiTrainValidates ==
    [][\A d \in MetricsDataInputs : MTrain(d) =>
          /\ ret'.result.success <=> ValidMetricSet(d)
          /\ ~ValidMetricSet(d) => mdet'.is_trained = mdet.is_trained
      ]_vars

\* C14: on a trained detector, detect and calculate_composite_health with a
\* metric name set other than the one of the training raise an error and
\* return no verdict and no health score
C14_MismatchRaises ==
    [][\A v \in MetricValuesInputs, p \in {-1, 1} :
          (mdet.is_trained /\ DOMAIN v # SetOf(mdet.metric_names)) =>
              /\ MDetect(v, p) => ret'.raised # "none"
              /\ MHealth(v, p) => ret'.raised # "none"
      ]_vars

-----------------------------------------------------------------------------
(* AlertCorrelator: the alerts *)

\* A createdAt string "YYYY-MM-DDTHH:MM:SS<zone>" of one day is the record
\* [wall |-> minutes of the day written in it, zone |-> its suffix]; the suffix
\* "" makes the parsed datetime naive, the others make it aware.
Zones == <<"", "+00:00", "+05:00", "Z">>

\* the UTC offset a suffix stands for, in minutes
OffsetOf(zone) == IF zone = "+05:00" THEN 300 ELSE 0

\* the place of a suffix in string order: "" < "+00:00" < "+05:00" < "Z"
ZoneRank(zone) == CHOOSE i \in 1..Len(Zones) : Zones[i] = zone

\* string comparison of two createdAt strings: c1 <= c2
CreatedAtLeq(c1, c2) ==
    \/ c1.wall < c2.wall
    \/ c1.wall = c2.wall /\ ZoneRank(c1.zone) <= ZoneRank(c2.zone)

\* datetime.fromisoformat(s.replace('Z', '+00:00')): aware or naive, and the
\* minutes of the day in UTC (a naive datetime is compared as it is written)
IsAware(c) == c.zone # ""
UtcMinutes(c) == c.wall - OffsetOf(c.zone)

\* an alert dict; an absent key and an empty string are both ""
Alert(id, fingerprint, rootCauseAssetId, assetId, createdAt, severity, impact) ==
    [id |-> id, rootCauseAssetId |-> rootCauseAssetId, createdAt |-> createdAt,
     businessImpactScore |-> impact,
     event |-> [fingerprint |-> fingerprint, assetId |-> assetId,
                severity |-> severity]]

\* event.get('fingerprint')
FingerprintOf(alert) == alert.event.fingerprint

\* alert.get('rootCauseAssetId') or event.get('assetId')
AssetOf(alert) ==
    IF alert.rootCauseAssetId # "" THEN alert.rootCauseAssetId
    ELSE alert.event.assetId

IdsOfAllButFirst(group_alerts) ==
    [i \in 1..(Len(group_alerts) - 1) |-> group_alerts[i + 1].id]

\* [a.get('id') for a in group_alerts]
IdsOf(group_alerts) == [i \in 1..Len(group_alerts) |-> group_alerts[i].id]

RECURSIVE InsertSorted(_, _)
\* one step of the stable sort: alert goes after every alert whose key is not
\* greater than its own
InsertSorted(sorted, alert) ==
    IF sorted = <<>> THEN <<alert>>
    ELSE IF CreatedAtLeq(sorted[Len(sorted)].createdAt, alert.createdAt)
    THEN Append(sorted, alert)
    ELSE Append(InsertSorted(SubSeq(sorted, 1, Len(sorted) - 1), alert),
                sorted[Len(sorted)])

NotSorted(as) == as

RECURSIVE SortedAlerts(_)
\* sorted(alerts, key=lambda a: a.get('createdAt', ...)): by the string
SortedAlerts(as) ==
    IF as = <<>> THEN <<>>
    ELSE InsertSorted(SortedAlerts(SubSeq(as, 1, Len(as) - 1)), as[Len(as)])

\* the key under which the loop of lines 45-55 puts an alert in the dict of
\* a pass, "" when the alert is not put in it
KeyOf(pass, alert) ==
    IF pass = "fingerprint" THEN FingerprintOf(alert) ELSE AssetOf(alert)

RECURSIVE GroupKeys(_, _)
\* the keys of a defaultdict filled alert by alert, in insertion order
GroupKeys(pass, as) ==
    IF as = <<>> THEN <<>>
    ELSE LET before == GroupKeys(pass, SubSeq(as, 1, Len(as) - 1))
             k == KeyOf(pass, as[Len(as)])
         IN  IF k = "" \/ \E i \in 1..Len(before) : before[i] = k
             THEN before ELSE Append(before, k)

\* the list a defaultdict holds under key k
GroupOf(pass, as, k) == SelectSeq(as, LAMBDA a : KeyOf(pass, a) = k)

-----------------------------------------------------------------------------
(* AlertCorrelator.find_correlated_alerts and suggest_suppression *)

\* time_window_minutes: int = 30
WindowMinutes == 30

\* correlation_score of the three kinds of group, in tenths
FingerprintScore == 9
AssetScore == 7
TimeClusterScore == 6

\* alert_count > 5 makes a time cluster an alert storm
StormSize == 5

\* suggest_suppression: correlation_score > 0.7, in tenths
SuppressionScore == 7

\* the cluster appended when the sweep leaves it: only if len(current_cluster) > 1
CloseCluster(time_clusters, current_cluster) ==
    IF Len(current_cluster) > 1 THEN Append(time_clusters, current_cluster)
    ELSE time_clusters

RECURSIVE Sweep(_, _, _, _, _)
\* lines 69-93: the loop over sorted_alerts from position i on; subtracting a
\* naive datetime from an aware one (or the reverse) raises TypeError
Sweep(sorted, i, current_cluster, time_clusters, window) ==
    IF i > Len(sorted)
    THEN [raised |-> "none",
          time_clusters |-> CloseCluster(time_clusters, current_cluster)]
    ELSE IF current_cluster = <<>>
    THEN Sweep(sorted, i + 1, <<sorted[i]>>, time_clusters, window)
    ELSE LET created_at == sorted[i].createdAt
             last_alert_time == current_cluster[Len(current_cluster)].createdAt
         IN  IF IsAware(created_at) # IsAware(last_alert_time)
             THEN [raised |-> "TypeError"]
             ELSE IF UtcMinutes(created_at) - UtcMinutes(last_alert_time) <= window
             THEN Sweep(sorted, i + 1, Append(current_cluster, sorted[i]),
                        time_clusters, window)
             ELSE Sweep(sorted, i + 1, <<sorted[i]>>,
                        CloseCluster(time_clusters, current_cluster), window)

\* lines 100-122: the groups of one dict, for its keys with more than one alert
KeyedGroups(pass, as, score, reason) ==
    LET emitted == SelectSeq(GroupKeys(pass, as),
                             LAMBDA k : Len(GroupOf(pass, as, k)) > 1)
    IN  [g \in 1..Len(emitted) |->
            [type |-> pass, key |-> emitted[g],
             alert_count |-> Len(GroupOf(pass, as, emitted[g])),
             alert_ids |-> IdsOf(GroupOf(pass, as, emitted[g])),
             correlation_score |-> score, reason |-> reason]]

\* lines 125-133: the groups of the time clusters, appended after `before` groups
TimeClusterGroups(time_clusters, before, window) ==
    [c \in 1..Len(time_clusters) |->
        [type |-> "time_cluster", key |-> "cluster_" \o ToString(before + c - 1),
         alert_count |-> Len(time_clusters[c]),
         alert_ids |-> IdsOf(time_clusters[c]),
         correlation_score |-> TimeClusterScore,
         reason |-> "Alerts within " \o ToString(window)
                        \o " minutes - possible cascading failure"]]

\* lines 98-133: correlation_groups
CorrelationGroups(as, time_clusters, window) ==
    LET keyed ==
            KeyedGroups("fingerprint", as, FingerprintScore,
                        "Same event fingerprint - likely same root cause")
            \o KeyedGroups("asset", as, AssetScore,
                           "Same asset affected - related infrastructure issue")
    IN  keyed \o TimeClusterGroups(time_clusters, Len(keyed), window)

\* lines 136-139
AlertStormDetected(correlation_groups) ==
    \E g \in 1..Len(correlation_groups) :
        /\ correlation_groups[g].alert_count > StormSize
        /\ correlation_groups[g].type = "time_cluster"

\* find_correlated_alerts(alerts, time_window_minutes): what it raises and
\* the dict it returns
FindCorrelatedAlerts(as, window) ==
    IF as = <<>>
    THEN [raised |-> "none",
          result |-> [total_alerts |-> 0, correlation_groups |-> <<>>,
                      alert_storm_detected |-> FALSE]]
    ELSE LET sweep == Sweep(SortedAlerts(as), 1, <<>>, <<>>, window)
         IN  IF sweep.raised # "none" THEN [raised |-> sweep.raised]
             ELSE LET groups == CorrelationGroups(as, sweep.time_clusters, window)
                  IN  [raised |-> "none",
                       result |->
                           [total_alerts |-> Len(as),
                            correlation_groups |-> groups,
                            alert_storm_detected |-> AlertStormDetected(groups),
                            unique_fingerprints |-> Len(GroupKeys("fingerprint", as)),
                            unique_assets |-> Len(GroupKeys("asset", as)),
                            time_clusters |-> Len(sweep.time_clusters)]]

\* round(x, 2) of x = 100 * num / den, in hundredths (ties go to the even one)
RoundHundredths(num, den) ==
    LET q == (10000 * num) \div den
        r == (10000 * num) % den
    IN  IF 2 * r < den THEN q
        ELSE IF 2 * r > den THEN q + 1
        ELSE IF q % 2 = 0 THEN q ELSE q + 1

\* lines 169-180: the suggestion of one group
Suggestion(group) ==
    [group_type |-> group.type,
     keep_alert_id |-> group.alert_ids[1],
     suppress_alert_ids |-> SubSeq(group.alert_ids, 2, Len(group.alert_ids)),
     alerts_to_suppress |-> Len(group.alert_ids) - 1]

SuggestedForAll(group) == group.alert_count > 2

\* line 170: the groups a suggestion is made for
Suggested(group) ==
    group.alert_count > 2 /\ group.correlation_score > SuppressionScore

\* suggest_suppression(alerts, correlation_result)
SuggestSuppression(as, correlation_result) ==
    LET groups == SelectSeq(correlation_result.correlation_groups, Suggested)
        suggestions == [g \in 1..Len(groups) |-> Suggestion(groups[g])]
        total == SumSeq([g \in 1..Len(groups) |-> suggestions[g].alerts_to_suppress])
    IN  [suppression_suggestions |-> suggestions,
         total_alerts |-> Len(as),
         suppressible_alerts |-> total,
         noise_reduction_percent |->
             IF as = <<>> THEN 0 ELSE RoundHundredths(total, Len(as))]

-----------------------------------------------------------------------------
(* Correlation requests *)

\* the longest batch of a correlation request, and of a storm
MaxAlerts == 3
MaxStorm == 6

\* the createdAt strings of the alerts
T1000 == [wall |-> 600, zone |-> "+00:00"]
T1030 == [wall |-> 630, zone |-> "+00:00"]
T1101 == [wall |-> 661, zone |-> "+00:00"]
T1200East == [wall |-> 720, zone |-> "+05:00"]

\* what an alert carries besides its id: fingerprint, rootCauseAssetId and
\* the assetId of its event
Profiles ==
    {<<"", "", "">>, <<"", "", "A1">>, <<"F1", "", "A1">>,
     <<"F1", "A2", "A1">>, <<"F2", "", "A1">>}

CorrKinds == Profiles \X {T1000, T1101}
StormKinds == {<<"", "", "">>} \X {T1000, T1030, T1101, T1200East}

\* the batch of alerts of the kinds ks, with ids 1, 2, ... in input order
Batch(ks) ==
    [i \in 1..Len(ks) |->
        Alert(i, ks[i][1][1], ks[i][1][2], ks[i][1][3], ks[i][2], "info", 0)]

BatchesOf(kinds, n) == {Batch(ks) : ks \in UNION {[1..k -> kinds] : k \in 0..n}}

\* POST /find-correlations
FindCorrelations ==
    /\ corr' = FindCorrelatedAlerts(alerts, WindowMinutes)
    /\ UNCHANGED <<alerts, supp, rootc, storeVars, detVars, concVars, statVars,
                   normVars, multiVars, callVars>>

\* POST /suggest-suppression: find_correlated_alerts, then suggest_suppression
SuggestSuppressions ==
    /\ FindCorrelatedAlerts(alerts, WindowMinutes).raised = "none"
    /\ corr' = FindCorrelatedAlerts(alerts, WindowMinutes)
    /\ supp' = SuggestSuppression(alerts, corr'.result)
    /\ UNCHANGED <<alerts, rootc, storeVars, detVars, concVars, statVars,
                   normVars, multiVars, callVars>>

InitCorr ==
    /\ files = EmptyFS
    /\ now = 0
    /\ ret = NoCall
    /\ lastSave = [n \in Names |-> NoSave]
    /\ budget = 0
    /\ IdleDet /\ IdleConc /\ IdleStat /\ IdleNorm /\ IdleMulti /\ IdleCall
    /\ alerts \in BatchesOf(CorrKinds, MaxAlerts)
    /\ corr = None /\ supp = None /\ rootc = None

NextCorr == FindCorrelations \/ SuggestSuppressions

SpecCorr == InitCorr /\ [][NextCorr]_vars

InitStorm ==
    /\ files = EmptyFS
    /\ now = 0
    /\ ret = NoCall
    /\ lastSave = [n \in Names |-> NoSave]
    /\ budget = 0
    /\ IdleDet /\ IdleConc /\ IdleStat /\ IdleNorm /\ IdleMulti /\ IdleCall
    /\ alerts \in BatchesOf(StormKinds, MaxStorm)
    /\ corr = None /\ supp = None /\ rootc = None

NextStorm == FindCorrelations

SpecStorm == InitStorm /\ [][NextStorm]_vars

-----------------------------------------------------------------------------
(* Claims about find_correlated_alerts and suggest_suppression *)

\* find_correlated_alerts has returned for the batch
Correlated == corr # None /\ corr.raised = "none"

\* the ids listed in a sequence of ids
IdSet(ids) == {ids[i] : i \in 1..Len(ids)}

\* the groups of one type in the result
GroupsOfType(result, type) ==
    {g \in 1..Len(result.correlation_groups) :
        result.correlation_groups[g].type = type}

\* the key of an alert in a pass: its fingerprint, or its asset id, which is
\* rootCauseAssetId and, without one, the assetId of its event
PassKey(type, alert) ==
    IF type = "fingerprint" THEN alert.event.fingerprint
    ELSE IF alert.rootCauseAssetId # "" THEN alert.rootCauseAssetId
    ELSE alert.event.assetId

\* One pass: every key carried by more than one alert has exactly one group,
\* with the score of the pass and with the ids of all alerts of that key as
\* members; no other key, and no alert without a key, has a group.
PassGroups(type, score) ==
    LET groups == corr.result.correlation_groups
        ofType == GroupsOfType(corr.result, type)
        keys == {PassKey(type, alerts[i]) : i \in 1..Len(alerts)}
                    \cup {groups[g].key : g \in ofType} \cup {""}
    IN  \A k \in keys :
            LET carriers == {i \in 1..Len(alerts) : PassKey(type, alerts[i]) = k}
                emitted == {g \in ofType : groups[g].key = k}
            IN  IF k # "" /\ Cardinality(carriers) > 1
                THEN /\ Cardinality(emitted) = 1
                     /\ \A g \in emitted :
                            /\ groups[g].correlation_score = score
                            /\ Len(groups[g].alert_ids) = Cardinality(carriers)
                            /\ groups[g].alert_count = Cardinality(carriers)
                            /\ IdSet(groups[g].alert_ids)
                                   = {alerts[i].id : i \in carriers}
                ELSE emitted = {}

\* C15: find_correlated_alerts emits exactly one fingerprint group, of score
\* 0.9, for each non-empty fingerprint that more than one alert carries, with
\* the ids of all alerts of that fingerprint as members, and none for another
\* fingerprint or for alerts without one; the asset pass does the same per
\* asset id, with score 0.7
C15_KeyedGroups ==
    Correlated =>
        /\ PassGroups("fingerprint", 9)
        /\ PassGroups("asset", 7)

\* a batch with a fingerprint group, a fingerprint that one alert only
\* carries, and a group of an asset named by rootCauseAssetId
C15_Witness ==
    /\ Correlated
    /\ \E g \in GroupsOfType(corr.result, "fingerprint") :
           corr.result.correlation_groups[g].key = "F1"
    /\ \E i \in 1..Len(alerts) : FingerprintOf(alerts[i]) = "F2"
    /\ \E g \in GroupsOfType(corr.result, "asset") :
           corr.result.correlation_groups[g].key = "A2"

\* the time of creation of alert i of the batch, in minutes UTC
Instant(i) == UtcMinutes(alerts[i].createdAt)

\* alerts i and j are in one run: between their times there are no two
\* neighbouring times of the batch further apart than the window
SameRun(i, j) ==
    LET lo == IF Instant(i) <= Instant(j) THEN Instant(i) ELSE Instant(j)
        hi == IF Instant(i) <= Instant(j) THEN Instant(j) ELSE Instant(i)
        times == {Instant(k) : k \in 1..Len(alerts)}
    IN  ~ \E u, v \in times :
            /\ lo <= u /\ u < v /\ v <= hi
            /\ v - u > WindowMinutes
            /\ ~ \E w \in times : u < w /\ w < v

\* the maximal runs with more than one member, as sets of ids
ExpectedClusters ==
    {R \in {{alerts[j].id : j \in {k \in 1..Len(alerts) : SameRun(i, k)}} :
                i \in 1..Len(alerts)} : Cardinality(R) > 1}

\* C16: the time-cluster groups are exactly the maximal runs, with more than
\* one member, of the alerts in order of creation time in which neighbours
\* are at most the window apart; they are pairwise disjoint; and
\* alert_storm_detected holds exactly when a run has more than 5 members
C16_TimeClusters ==
    Correlated =>
        LET groups == corr.result.correlation_groups
            ofType == GroupsOfType(corr.result, "time_cluster")
        IN  /\ {IdSet(groups[g].alert_ids) : g \in ofType} = ExpectedClusters
            /\ Cardinality(ofType) = Cardinality(ExpectedClusters)
            /\ \A g, h \in ofType :
                   g # h => IdSet(groups[g].alert_ids)
                                \cap IdSet(groups[h].alert_ids) = {}
            /\ corr.result.alert_storm_detected
                   <=> \E R \in ExpectedClusters : Cardinality(R) > 5

\* what a result says when the order of members is left aside
Summary(result) ==
    [groups |-> {[type |-> result.correlation_groups[g].type,
                  score |-> result.correlation_groups[g].correlation_score,
                  members |-> IdSet(result.correlation_groups[g].alert_ids)] :
                     g \in 1..Len(result.correlation_groups)},
     group_count |-> Len(result.correlation_groups),
     total_alerts |-> result.total_alerts,
     unique_fingerprints |-> result.unique_fingerprints,
     unique_assets |-> result.unique_assets,
     time_clusters |-> result.time_clusters,
     alert_storm_detected |-> result.alert_storm_detected]

\* the permutations of 1..n
Perms(n) == {p \in [1..n -> 1..n] : \A i, j \in 1..n : p[i] = p[j] => i = j}

\* C17: for every permutation of the batch, find_correlated_alerts returns
\* the same groups (type, score and set of member ids), the same counts and
\* the same storm flag as for the batch
C17_PermutationSymmetric ==
    (Correlated /\ alerts # <<>>) =>
        LET summary == Summary(corr.result)
        IN  \A p \in Perms(Len(alerts)) :
                LET permuted == [i \in 1..Len(alerts) |-> alerts[p[i]]]
                    again == FindCorrelatedAlerts(permuted, WindowMinutes)
                IN  /\ again.raised = "none"
                    /\ Summary(again.result) = summary

\* a batch that is not in order of creation, with a time cluster and a
\* fingerprint group
C17_Witness ==
    /\ Correlated
    /\ Len(alerts) = MaxAlerts
    /\ alerts[1].createdAt = T1101 /\ alerts[2].createdAt = T1000
    /\ GroupsOfType(corr.result, "time_cluster") # {}
    /\ GroupsOfType(corr.result, "fingerprint") # {}

\* C18: suggest_suppression makes a suggestion exactly for the groups with
\* more than 2 members and a score above 0.7, in their order; a suggestion
\* keeps the first member of its group and suppresses the others; the kept
\* id is never among the suppressed ids, so never all members are suppressed
C18_SuppressionKeepsOne ==
    (Correlated /\ supp # None) =>
        LET groups == corr.result.correlation_groups
            eligible == SelectSeq(groups,
                            LAMBDA g : Len(g.alert_ids) > 2 /\ g.correlation_score > 7)
            suggestions == supp.suppression_suggestions
        IN  /\ Len(suggestions) = Len(eligible)
            /\ \A k \in 1..Len(suggestions) :
                   /\ suggestions[k].keep_alert_id = Head(eligible[k].alert_ids)
                   /\ suggestions[k].suppress_alert_ids = Tail(eligible[k].alert_ids)
                   /\ suggestions[k].keep_alert_id
                          \notin IdSet(suggestions[k].suppress_alert_ids)
                   /\ Len(suggestions[k].suppress_alert_ids)
                          < Len(eligible[k].alert_ids)

\* three alerts of one fingerprint and one asset: the fingerprint group gets
\* a suggestion, the asset group of the same three alerts gets none
C18_Witness ==
    /\ Correlated /\ supp # None
    /\ Len(supp.suppression_suggestions) = 1
    /\ supp.suppression_suggestions[1].group_type = "fingerprint"
    /\ \E g \in GroupsOfType(corr.result, "asset") :
           corr.result.correlation_groups[g].alert_count > 2

-----------------------------------------------------------------------------
(* AlertCorrelator.identify_root_cause_alert *)

RECURSIVE CommonDivisor(_, _)
CommonDivisor(a, b) == IF b = 0 THEN a ELSE CommonDivisor(b, a % b)

\* Scores are exact fractions <<numerator, denominator>> in lowest terms,
\* denominator > 0.
Lowest(n, d) ==
    LET g == CommonDivisor(IF n < 0 THEN -n ELSE n, d)
    IN  <<n \div g, d \div g>>

ScoreLess(a, b) == a[1] * b[2] < b[1] * a[2]

\* The try block: datetime.utcnow() is naive, so subtracting a creation time
\* that carries an offset raises TypeError; one hour in the future makes the
\* divisor 0 and raises ZeroDivisionError.  Both are swallowed and the alert
\* gets no time score.  Otherwise 100 / (1 + hours) = 6000 / (60 + minutes).
TimeScore(createdAt, utcnow) ==
    LET divisor == 60 + (utcnow - createdAt.wall)
    IN  IF IsAware(createdAt) \/ divisor = 0 THEN <<0, 1>>
        ELSE IF divisor > 0 THEN Lowest(6000, divisor)
        ELSE Lowest(-6000, -divisor)

\* severity == 'critical': +50, 'warning': +25
SeverityScore(severity) ==
    IF severity = "critical" THEN 50
    ELSE IF severity = "warning" THEN 25
    ELSE 0

\* score = time_score + impact * 0.5 + severity score
RootCauseScore(alert, utcnow) ==
    LET time_score == TimeScore(alert.createdAt, utcnow)
        halves == alert.businessImpactScore + 2 * SeverityScore(alert.event.severity)
    IN  Lowest(2 * time_score[1] + halves * time_score[2], 2 * time_score[2])

\* max(scored_alerts, key=...): the first alert whose score no alert exceeds
RootCauseIndex(as, utcnow) ==
    CHOOSE i \in 1..Len(as) :
        /\ \A j \in 1..Len(as) :
               ~ ScoreLess(RootCauseScore(as[i], utcnow), RootCauseScore(as[j], utcnow))
        /\ \A j \in 1..(i - 1) :
               ScoreLess(RootCauseScore(as[j], utcnow), RootCauseScore(as[i], utcnow))

\* min(root_cause_score / 200, 1.0)
RootCauseConfidence(score) ==
    IF score[1] >= 200 * score[2] THEN <<1, 1>> ELSE Lowest(score[1], 200 * score[2])

IdentifyRootCauseAlert(as, utcnow) ==
    IF as = <<>> THEN None
    ELSE LET root_cause == RootCauseIndex(as, utcnow)
         IN  [kind |-> "root_cause",
              root_cause_alert_id |-> as[root_cause].id,
              confidence |-> RootCauseConfidence(RootCauseScore(as[root_cause], utcnow)),
              reason |-> "Earliest occurrence with highest business impact"]

-----------------------------------------------------------------------------
(* Requests to POST /identify-root-cause *)

MaxCandidates == 2

\* creation times without an offset, as datetime.utcnow().isoformat() writes
N1000 == [wall |-> 600, zone |-> ""]
N1200 == [wall |-> 720, zone |-> ""]
N1400 == [wall |-> 840, zone |-> ""]
N1500 == [wall |-> 900, zone |-> ""]

\* the time of the call, in minutes of the day: 13:00 and 14:30
CallTimes == {780, 870}

RootKinds == {N1000, N1200, N1400, N1500, T1000}
                 \X {"critical", "warning", "info"} \X {0, 40}

RootBatch(ks) ==
    [i \in 1..Len(ks) |-> Alert(i, "", "", "", ks[i][1], ks[i][2], ks[i][3])]

RootBatches == {RootBatch(ks) : ks \in UNION {[1..k -> RootKinds] : k \in 0..MaxCandidates}}

IdentifyRootCause(utcnow) ==
    /\ rootc = None
    /\ rootc' = [utcnow |-> utcnow,
                 root_cause |-> IdentifyRootCauseAlert(alerts, utcnow)]
    /\ UNCHANGED <<alerts, corr, supp, storeVars, detVars, concVars, statVars,
                   normVars, multiVars, callVars>>

InitRoot ==
    /\ files = EmptyFS
    /\ now = 0
    /\ ret = NoCall
    /\ lastSave = [n \in Names |-> NoSave]
    /\ budget = 0
    /\ IdleDet /\ IdleConc /\ IdleStat /\ IdleNorm /\ IdleMulti /\ IdleCall
    /\ alerts \in RootBatches
    /\ corr = None /\ supp = None /\ rootc = None

NextRoot == \E utcnow \in CallTimes : IdentifyRootCause(utcnow)

SpecRoot == InitRoot /\ [][NextRoot]_vars

\* identify_root_cause_alert has returned
Identified == rootc # None

\* alert i was created before alert j (times without an offset are UTC, as
\* the comparison with utcnow() takes them)
CreatedBefore(i, j) == UtcMinutes(alerts[i].createdAt) < UtcMinutes(alerts[j].createdAt)

\* alerts i and j have the same severity and the same businessImpactScore
OtherwiseEqual(i, j) ==
    /\ alerts[i].event.severity = alerts[j].event.severity
    /\ alerts[i].businessImpactScore = alerts[j].businessImpactScore

\* C19: of two alerts with the same severity and the same businessImpactScore
\* the one created earlier has the strictly higher score, and among otherwise
\* equal alerts the earliest one is returned as the root cause
C19_EarlierScoresHigher ==
    (Identified /\ alerts # <<>>) =>
        /\ \A i, j \in 1..Len(alerts) :
               (OtherwiseEqual(i, j) /\ CreatedBefore(i, j)) =>
                   ScoreLess(RootCauseScore(alerts[j], rootc.utcnow),
                             RootCauseScore(alerts[i], rootc.utcnow))
        /\ (\A i, j \in 1..Len(alerts) : OtherwiseEqual(i, j)) =>
               \A i \in 1..Len(alerts) :
                   alerts[i].id = rootc.root_cause.root_cause_alert_id =>
                       ~ \E j \in 1..Len(alerts) : CreatedBefore(j, i)

\* C20: identify_root_cause_alert returns None exactly for the empty batch;
\* otherwise it returns the id of an alert of maximum score and a confidence
\* equal to min(maxScore / 200, 1) that lies in [0, 1]
C20_ConfidenceInUnitInterval ==
    Identified =>
        /\ (rootc.root_cause = None) <=> (alerts = <<>>)
        /\ alerts # <<>> =>
               \E i \in 1..Len(alerts) :
                   LET score == RootCauseScore(alerts[i], rootc.utcnow)
                       confidence == rootc.root_cause.confidence
                   IN  /\ alerts[i].id = rootc.root_cause.root_cause_alert_id
                       /\ \A j \in 1..Len(alerts) :
                              ~ ScoreLess(score, RootCauseScore(alerts[j], rootc.utcnow))
                       /\ confidence = RootCauseConfidence(score)
                       /\ 0 <= confidence[1] /\ confidence[1] <= confidence[2]

-----------------------------------------------------------------------------
(* RootCauseAnalyzer.calculate_business_impact *)

MaxRelated == 12

\* severity_scores.get(severity, 10)
BaseScore(severity) ==
    IF severity = "critical" THEN 50
    ELSE IF severity = "warning" THEN 30
    ELSE 10

\* tier_multipliers.get(asset_tier, 1.0), in halves
TierMultiplier(asset_tier) ==
    IF asset_tier = 1 THEN 4
    ELSE IF asset_tier = 2 THEN 3
    ELSE 2

\* 1.0 + (related_events_count * 0.1), in tenths
CorrelationMultiplier(related_events_count) == 10 + related_events_count

\* int(x) of the fraction x: rounding towards zero
IntOf(x) ==
    IF x[1] >= 0 THEN x[1] \div x[2] ELSE -((-x[1]) \div x[2])

\* min(base_score * tier_multiplier * correlation_multiplier, 100)
ImpactScore(severity, asset_tier, related_events_count) ==
    LET product == Lowest(BaseScore(severity) * TierMultiplier(asset_tier)
                              * CorrelationMultiplier(related_events_count), 20)
    IN  IF product[1] > 100 * product[2] THEN <<100, 1>> ELSE product

ImpactLevel(impact_score) ==
    IF impact_score[1] > 70 * impact_score[2] THEN "high"
    ELSE IF impact_score[1] > 40 * impact_score[2] THEN "medium"
    ELSE "low"

CalculateBusinessImpact(severity, asset_tier, related_events_count) ==
    LET impact_score == ImpactScore(severity, asset_tier, related_events_count)
        affected_users == IntOf(Lowest(10 * impact_score[1], impact_score[2]))
    IN  [business_impact_score |-> IntOf(impact_score),
         affected_users |-> affected_users,
         revenue_at_risk |-> affected_users * 100,
         impact_level |-> ImpactLevel(impact_score)]

\* BusinessImpactRequest: event is any dict, asset_tier and
\* related_events_count are any int
Severities == {"critical", "warning", "info", "emergency"}
AssetTiers == 0..4
RelatedCounts == (-MaxRelated)..MaxRelated

ImpactRequests ==
    [severity : Severities, asset_tier : AssetTiers,
     related_events_count : RelatedCounts]

\* POST /ml/calculate-business-impact
BusinessImpact ==
    /\ response = None
    /\ response' = CalculateBusinessImpact(request.severity, request.asset_tier,
                                           request.related_events_count)
    /\ UNCHANGED <<request, storeVars, detVars, concVars, statVars,
                   normVars, multiVars, alertVars>>

InitImpact ==
    /\ files = EmptyFS
    /\ now = 0
    /\ ret = NoCall
    /\ lastSave = [n \in Names |-> NoSave]
    /\ budget = 0
    /\ IdleDet /\ IdleConc /\ IdleStat /\ IdleNorm /\ IdleMulti /\ IdleAlerts
    /\ request \in ImpactRequests
    /\ response = None

NextImpact == BusinessImpact

SpecImpact == InitImpact /\ [][NextImpact]_vars

\* C21: calculate_business_impact returns an impact score within [0, 100]
\* for every severity, every asset tier and every related_events_count that
\* the request model accepts
C21_ImpactWithinRange ==
    response # None =>
        /\ 0 <= response.business_impact_score
        /\ response.business_impact_score <= 100

-----------------------------------------------------------------------------
(* POST /anomaly/detect: the batch over assets *)

MaxAssets == 2

\* What EMS Core answers for one asset: the asset request fails, finds no
\* asset or finds it; the metrics request fails or returns samples.
AssetAnswers == {"error", "missing", "found"}
MetricAnswers ==
    {[ok |-> FALSE, values |-> <<>>], [ok |-> TRUE, values |-> <<>>],
     [ok |-> TRUE, values |-> DataShort], [ok |-> TRUE, values |-> DataB]}
Worlds == [asset : AssetAnswers, metrics : MetricAnswers]

\* ems_client.get_asset_by_id: the asset, or None after any failure
GetAssetById(world, asset_id) ==
    IF world.asset = "found"
    THEN [kind |-> "asset", id |-> asset_id, name |-> "Core-Router-01"]
    ELSE None

\* the record get_metrics builds for one sample: timestamp and value, and
\* the query parameters that were given
EnrichedMetric(timestamp, value, asset_id, metric_name) ==
    [timestamp |-> timestamp, value |-> value]
        @@ (IF asset_id # 0 THEN [assetId |-> asset_id] ELSE <<>>)
        @@ (IF metric_name # None THEN [metricName |-> metric_name] ELSE <<>>)

\* ems_client.get_metrics: the enriched samples, or [] after any failure
GetMetrics(world, asset_id, metric_name) ==
    IF ~world.metrics.ok THEN <<>>
    ELSE [i \in 1..Len(world.metrics.values) |->
             EnrichedMetric(i, world.metrics.values[i], asset_id, metric_name)]

\* the columns of the DataFrame made of the records
Columns(metrics) == UNION {DOMAIN metrics[i] : i \in 1..Len(metrics)}

\* the dict of a verdict, with the fields the asset adds
AssetVerdict(asset, verdict) ==
    [assetId |-> asset.id, assetName |-> asset.name] @@ verdict

\* The body of the try block of analyze_asset_metrics.  The detector is as
\* constructed, not trained, so use_ml is off and every metric takes the
\* statistical branch.  Selecting the column metricName of a DataFrame that
\* has none raises KeyError.  Samples that have a metricName all have the one
\* that get_metrics was asked for, so they are the samples of one metric.
AnalysisOutcome(world, asset_id, metric_names) ==
    LET asset == GetAssetById(world, asset_id)
        metrics == GetMetrics(world, asset_id, None)
    IN  IF asset = None THEN [raised |-> "none", results |-> <<>>]
        ELSE IF metrics = <<>> THEN [raised |-> "none", results |-> <<>>]
        ELSE IF "metricName" \notin Columns(metrics)
        THEN [raised |-> "KeyError", results |-> <<>>]
        ELSE LET kept == IF metric_names.given
                         THEN SelectSeq(metrics,
                                  LAMBDA m : \E i \in 1..Len(metric_names.names) :
                                                 metric_names.names[i] = m.metricName)
                         ELSE metrics
                 values == [i \in 1..Len(kept) |-> kept[i].value]
                 found == AnalyzeAssetMetrics(values)
             IN  [raised |-> "none",
                  results |-> [k \in 1..Len(found) |-> AssetVerdict(asset, found[k])]]

AnalyzeAssetMetricsUncaught(world, asset_id, metric_names) ==
    AnalysisOutcome(world, asset_id, metric_names)

\* analyze_asset_metrics: except Exception: return []
AnalyzeAssetMetricsFor(world, asset_id, metric_names) ==
    IF AnalysisOutcome(world, asset_id, metric_names).raised # "none"
    THEN [raised |-> "none", results |-> <<>>]
    ELSE AnalysisOutcome(world, asset_id, metric_names)

RECURSIVE AllResults(_, _, _)
\* the loop of the route over the first n assets: all_results.extend(results),
\* or the exception that left the loop
AllResults(worlds, n, metric_names) ==
    IF n = 0 THEN [raised |-> "none", results |-> <<>>]
    ELSE LET before == AllResults(worlds, n - 1, metric_names)
             analysis == AnalyzeAssetMetricsFor(worlds[n], n, metric_names)
         IN  IF before.raised # "none" THEN before
             ELSE IF analysis.raised # "none"
             THEN [raised |-> analysis.raised, results |-> <<>>]
             ELSE [raised |-> "none", results |-> before.results \o analysis.results]

\* detect_anomalies for the assets 1..Len(worlds)
DetectAnomalies(worlds, metric_names) ==
    IF worlds = <<>>
    THEN [status |-> 200, success |-> TRUE, totalAnalyzed |-> 0,
          anomaliesDetected |-> 0, results |-> <<>>]
    ELSE LET all_results == AllResults(worlds, Len(worlds), metric_names)
         IN  IF all_results.raised # "none"
             THEN [status |-> 500, detail |-> all_results.raised]
             ELSE [status |-> 200, success |-> TRUE,
                   totalAnalyzed |-> Len(worlds),
                   anomaliesDetected |-> Len(all_results.results),
                   results |-> all_results.results]

\* request.metricNames: None, or the names to keep
MetricNamesInputs ==
    {[given |-> FALSE, names |-> <<>>], [given |-> TRUE, names |-> <<"cpu_usage">>]}

BatchRequests ==
    [worlds : UNION {[1..k -> Worlds] : k \in 0..MaxAssets},
     metricNames : MetricNamesInputs]

DetectBatch ==
    /\ response = None
    /\ response' = DetectAnomalies(request.worlds, request.metricNames)
    /\ UNCHANGED <<request, storeVars, detVars, concVars, statVars,
                   normVars, multiVars, alertVars>>

InitBatch ==
    /\ files = EmptyFS
    /\ now = 0
    /\ ret = NoCall
    /\ lastSave = [n \in Names |-> NoSave]
    /\ budget = 0
    /\ IdleDet /\ IdleConc /\ IdleStat /\ IdleNorm /\ IdleMulti /\ IdleAlerts
    /\ request \in BatchRequests
    /\ response = None

NextBatch == DetectBatch

SpecBatch == InitBatch /\ [][NextBatch]_vars

\* the analysis of asset k of the batch failed: a request to EMS Core
\* failed, or the scoring raised
FailingAsset(k) ==
    \/ request.worlds[k].asset = "error"
    \/ ~request.worlds[k].metrics.ok
    \/ AnalysisOutcome(request.worlds[k], k, request.metricNames).raised # "none"

\* the results that carry the id of asset k, in their order
ResultsOf(results, k) == SelectSeq(results, LAMBDA r : r.assetId = k)

-----------------------------------------------------------------------------
(* The routes of src/api/ml_routes.py that use the detector they share *)

\* AnomalyDetectionRequest: a value and, optionally, historical data; no
\* historical_data is the empty list
HistoryInputs == {<<>>, DataShort, DataA, DataB, Scenario}
RequestValues == {10, 50, 90, 500}

DetectionRequests ==
    [route : {"detect-anomaly"}, value : RequestValues,
     historical_data : HistoryInputs]

\* MetricData
TrainingRequests == [route : {"train-anomaly-detector"}, values : TrainingInputs]

\* if request.historical_data and len(request.historical_data) >= 10: train
TrainedIfHistory(det, historical_data) ==
    IF historical_data # <<>> /\ Len(historical_data) >= 10
    THEN SrcTrained(det, historical_data)
    ELSE det

\* detect_anomaly: train on the history, if any, then detect
DetectAnomalyResult(det, req) ==
    [value |-> req.value,
     result |-> SrcDetectResult(TrainedIfHistory(det, req.historical_data), req.value)]

\* train_anomaly_detector: the HTTPException(400) for fewer than 10 points is
\* raised inside the try block, so `except Exception` answers it as a 500
TrainAnomalyDetectorResult(req) ==
    IF Len(req.values) < 10
    THEN [status_code |-> 500, detail |-> "400: Need at least 10 data points for training"]
    ELSE [status |-> "trained", data_points |-> Len(req.values),
          statistics |-> GetStatistics(req.values)]

DetectAnomaly(req) ==
    /\ budget > 0
    /\ budget' = budget - 1
    /\ request' = req
    /\ sdet' = TrainedIfHistory(sdet, req.historical_data)
    /\ response' = DetectAnomalyResult(sdet, req)
    /\ UNCHANGED <<files, now, ret, lastSave, pdet, adet, afiles, concVars,
                   statVars, normVars, multiVars, alertVars>>

TrainAnomalyDetector(req) ==
    /\ budget > 0
    /\ budget' = budget - 1
    /\ request' = req
    /\ sdet' = SrcTrained(sdet, req.values)
    /\ response' = TrainAnomalyDetectorResult(req)
    /\ UNCHANGED <<files, now, ret, lastSave, pdet, adet, afiles, concVars,
                   statVars, normVars, multiVars, alertVars>>

\* GET /ml/model-status
GetModelStatus ==
    /\ budget > 0
    /\ budget' = budget - 1
    /\ request' = [route |-> "model-status"]
    /\ response' = [anomaly_detector |->
                        [is_trained |-> sdet.is_trained, contamination |-> 10,
                         algorithm |-> "Isolation Forest"],
                    root_cause_analyzer |->
                        [status |-> "ready", algorithm |-> "Correlation Analysis"]]
    /\ UNCHANGED <<files, now, ret, lastSave, detVars, concVars,
                   statVars, normVars, multiVars, alertVars>>

InitShared ==
    /\ files = EmptyFS
    /\ now = 0
    /\ ret = NoCall
    /\ lastSave = [n \in Names |-> NoSave]
    /\ budget = MaxOps
    /\ pdet = NoDetector
    /\ sdet = SrcNewDetector
    /\ afiles = <<>>
    /\ adet = NoDetector
    /\ IdleConc /\ IdleStat /\ IdleRest

NextShared ==
    \/ \E req \in DetectionRequests : DetectAnomaly(req)
    \/ \E req \in TrainingRequests : TrainAnomalyDetector(req)
    \/ GetModelStatus

SpecShared == InitShared /\ [][NextShared]_vars

\* C23: the verdict of a detection request depends on the inputs of that
\* request only: whatever requests were served before it, for whatever
\* assets, it is the verdict that the request gets from the service when it
\* is the first request
C23_VerdictOfOwnInputs ==
    (response # None /\ request.route = "detect-anomaly") =>
        response = DetectAnomalyResult(SrcNewDetector, request)
-----------------------------------------------------------------------------
(* AnomalyDetector._prepare_features *)

MaxFeatures == 11

\* values[max(0, i-5):i+1] holds 6 values
RollingWindow == 6

\* np.mean, np.std (as its square), np.min, np.max of a window, exact
RollingBlock(recent) ==
    <<Lowest(SumSeq(recent), Len(recent)),
      Lowest(Len(recent) * SumSq(recent) - SumSeq(recent) * SumSeq(recent),
             Len(recent) * Len(recent)),
      SeqMin(recent), SeqMax(recent)>>

\* [values[i]] * 4: the value in the place of mean, std, min and max; the
\* place of the std holds the square, as in RollingBlock (values are >= 0)
RepeatedBlock(v) == <<Lowest(v, 1), Lowest(v * v, 1), v, v>>

\* the feature vector of position p = i + 1:
\* <<value, mean, std^2, min, max, lag>>
FeatureVector(values, p) ==
    <<values[p]>>
        \o (IF p - 1 >= 5
            THEN RollingBlock(SubSeq(values, p - 5, p))
            ELSE RepeatedBlock(values[p]))
        \o <<IF p - 1 >= 1 THEN values[p - 1] ELSE values[p]>>

\* _prepare_features(values): None for fewer than 10 values
PrepareFeatures(values) ==
    IF Len(values) < 10 THEN None
    ELSE [kind |-> "features",
          rows |-> [p \in 1..Len(values) |-> FeatureVector(values, p)]]

FeatureInputs == UNION {[1..n -> SampleValues] : n \in 9..MaxFeatures}

PrepareFeaturesCall ==
    /\ response = None
    /\ response' = [features |-> PrepareFeatures(request)]
    /\ UNCHANGED <<request, storeVars, detVars, concVars, statVars,
                   normVars, multiVars, alertVars>>

InitFeatures ==
    /\ files = EmptyFS
    /\ now = 0
    /\ ret = NoCall
    /\ lastSave = [n \in Names |-> NoSave]
    /\ budget = 0
    /\ IdleDet /\ IdleConc /\ IdleStat /\ IdleNorm /\ IdleMulti /\ IdleAlerts
    /\ request \in FeatureInputs
    /\ response = None

NextFeatures == PrepareFeaturesCall

SpecFeatures == InitFeatures /\ [][NextFeatures]_vars

\* the last min(p, w) values up to position p
LastValues(values, p, w) ==
    SubSeq(values, IF p > w THEN p - w + 1 ELSE 1, p)

\* C24: for n >= 10 values, feature preparation returns n feature vectors of
\* one length; at every position the rolling block is the mean, std, min and
\* max of the last min(i+1, w) values and the lag feature is the value
\* before, or the value itself at the first position
C24_RollingFeatures ==
    (response # None /\ Len(request) >= 10) =>
        /\ response.features # None
        /\ Len(response.features.rows) = Len(request)
        /\ \A p \in 1..Len(request) :
               LET row == response.features.rows[p]
                   expected == LastValues(request, p, RollingWindow)
               IN  /\ Len(row) = Len(response.features.rows[1])
                   /\ row[1] = request[p]
                   /\ row[2] = Lowest(SumSeq(expected), Len(expected))
                   /\ row[3] = Lowest(Len(expected) * SumSq(expected)
                                          - SumSeq(expected) * SumSeq(expected),
                                      Len(expected) * Len(expected))
                   /\ row[4] = SeqMin(expected)
                   /\ row[5] = SeqMax(expected)
                   /\ row[6] = IF p > 1 THEN request[p - 1] ELSE request[p]


\* C25: in every group that find_correlated_alerts returns, of whichever
\* type, the member ids are listed in the order of the alerts in the input
\* (the ids of a batch are 1, 2, ... in input order)
C25_MembersInInputOrder ==
    Correlated =>
        \A g \in 1..Len(corr.result.correlation_groups) :
            LET ids == corr.result.correlation_groups[g].alert_ids
            IN  \A i, j \in 1..Len(ids) : i < j => ids[i] < ids[j]

-----------------------------------------------------------------------------
(* Failing storage: AnomalyDetector.train and save_model of               *)
(* app/services/anomaly_detection.py, ModelStorage.load_model             *)

\* what the disk does to save_model(): nothing, joblib.dump of the model
\* cannot write its file, or joblib.dump of the scaler cannot write its file
DiskFaults == {"none", "model_file", "scaler_file"}

\* save_model(), lines 362-370: the files it leaves when a dump raises
AppSaveModelOnDisk(det, afs, fault) ==
    IF ~det.is_trained \/ fault = "model_file" THEN afs
    ELSE IF fault = "scaler_file"
    THEN WriteFile(afs, AppModelFile, JoblibDump(det.model))
    ELSE AppSaveModel(det, afs)

\* save_model(): True, and False when it is not trained or a dump raised
\* (lines 358-360, 372-374)
AppSaveModelResult(det, fault) == det.is_trained /\ fault = "none"

\* train(), lines 86-90: save_model() is called for its effect, what it
\* returns is dropped, and the metrics are returned
AppTrainResult(det, training_data, contamination, fault) ==
    LET trained == AppTrained(det, training_data, contamination)
        saved == AppSaveModelResult(trained, fault)
    IN  [raised |-> "none",
         result |-> [samples_trained |-> Len(training_data),
                     contamination |-> trained.model.contamination]]

\* anomaly_detector.train(training_data, contamination) on a disk that may fail
ATrainOnDisk(training_data, contamination, fault) ==
    /\ budget > 0
    /\ budget' = budget - 1
    /\ request' = [op |-> "train", fault |-> fault]
    /\ adet' = AppTrained(adet, training_data, contamination)
    /\ afiles' = AppSaveModelOnDisk(AppTrained(adet, training_data, contamination),
                                    afiles, fault)
    /\ response' = AppTrainResult(adet, training_data, contamination, fault)
    /\ UNCHANGED <<files, now, ret, lastSave, pdet, sdet, concVars, statVars,
                   normVars, multiVars, alertVars>>

\* model_storage.save_model whose process is stopped between line 71,
\* open(latest_path, 'wb'), and line 73: the latest file exists and is empty
SaveModelStopped(model_name, model, metadata) ==
    /\ budget > 0
    /\ budget' = budget - 1
    /\ files' = LET filepath == ModelFile(model_name, Strftime(now))
                    fs1 == WriteFile(files, filepath, PickleDump(model))
                    fs2 == SaveMetadataStep(fs1, filepath, metadata, now)
                    fs3 == RemoveLatestStep(fs2, model_name)
                IN  WriteFile(fs3, LatestPath(model_name), Truncated)
    /\ request' = [op |-> "save_model", name |-> model_name]
    /\ response' = None
    /\ UNCHANGED <<now, ret, lastSave, detVars, concVars, statVars,
                   normVars, multiVars, alertVars>>

\* a save_model that completes
SaveModelStored(model_name, model, metadata) ==
    /\ budget > 0
    /\ budget' = budget - 1
    /\ files' = SaveModelFS(files, model, model_name, metadata, now)
    /\ request' = [op |-> "save_model", name |-> model_name]
    /\ response' = [raised |-> "none",
                    result |-> ModelFile(model_name, Strftime(now))]
    /\ UNCHANGED <<now, ret, lastSave, detVars, concVars, statVars,
                   normVars, multiVars, alertVars>>

\* model_storage.load_model(model_name), lines 99-118: every exception of
\* open and pickle.load is caught, printed, and None is returned
LoadModelStored(model_name) ==
    /\ request' = [op |-> "load_model", name |-> model_name]
    /\ response' = [raised |-> "none",
                    result |-> LoadModelResult(files, model_name, "latest")]
    /\ UNCHANGED <<storeVars, detVars, concVars, statVars,
                   normVars, multiVars, alertVars>>

InitFault ==
    /\ files = EmptyFS
    /\ now = 0
    /\ ret = NoCall
    /\ lastSave = [n \in Names |-> NoSave]
    /\ budget = MaxOps
    /\ pdet = NoDetector
    /\ sdet = NoDetector
    /\ afiles = EmptyFS
    /\ adet = AppNewDetector(EmptyFS)
    /\ IdleConc /\ IdleStat /\ IdleRest

NextFault ==
    \/ \E d \in {DataShort, DataB}, c \in ContaminationInputs, f \in DiskFaults :
          ATrainOnDisk(d, c, f)
    \/ \E n \in Names, m \in Models : SaveModelStopped(n, m, TrainMetadata(m))
    \/ \E n \in Names, m \in Models : SaveModelStored(n, m, TrainMetadata(m))
    \/ \E n \in Names : LoadModelStored(n)

SpecFault == InitFault /\ [][NextFault]_vars

\* the stored latest model of the request's name exists and cannot be read
UnreadableLatest ==
    /\ Exists(files, LatestPath(request.name))
    /\ ~CanUnpickle(files[LatestPath(request.name)])

\* C26 (as claimed): a persistence failure is never swallowed: a train
\* whose save_model could not write its files, and a load_model of a stored
\* model that exists and cannot be read, report a PersistenceError to the
\* caller, not a success and not "nothing found".
C26_PersistenceFailureReported ==
    /\ (request # None /\ request.op = "train" /\ request.fault # "none")
          => response.raised = "PersistenceError"
    /\ (request # None /\ request.op = "load_model" /\ UnreadableLatest)
          => response.raised = "PersistenceError"

\* the part of C26 about train alone, and about load_model alone
C26_TrainFailureReported ==
    (request # None /\ request.op = "train" /\ request.fault # "none")
        => response.raised = "PersistenceError"

C26_LoadFailureReported ==
    (request # None /\ request.op = "load_model" /\ UnreadableLatest)
        => response.raised = "PersistenceError"


\* the metadata dict save_model writes for a model saved as filepath, but
\* for its saved_at stamp
SavedWith(metadata, model, filepath) ==
    /\ metadata.model_file = filepath
    /\ [k \in DOMAIN TrainMetadata(model) |-> metadata[k]] = TrainMetadata(model)

\* what load_metadata(name, "latest") returns belongs to what
\* load_model(name, "latest") returns
LatestMetadataMatches(model_name) ==
    LET model == LoadModelResult(files, model_name, "latest")
        metadata == LoadMetadataResult(files, model_name, "latest")
    IN  metadata # None =>
            /\ model # None
            /\ lastSave[model_name] # NoSave
            /\ SavedWith(metadata, model,
                         ModelFile(model_name, lastSave[model_name].version))

\* C27 (as claimed): after any saves, with or without metadata, and deletes
\* over model names of which one is a prefix of the other,
\* load_metadata(name, "latest") returns nothing or the metadata saved with
\* the version that load_model(name, "latest") returns, never that of an
\* older version or of another model name.
C27_LatestMetadataOfLatestModel ==
    \A n \in Names : LatestMetadataMatches(n)

\* the part of C27 about a name that is a prefix of no other name
C27_LatestMetadataOfLongestName == LatestMetadataMatches(<<"cpu", "mem">>)

-----------------------------------------------------------------------------
(* train with a failing step: PersistentAnomalyDetector.train and         *)
(* MultiMetricDetector.train                                               *)

\* IsolationForest(contamination=..., random_state=42, n_estimators=100),
\* before fit
IsolationForestNew(contamination) ==
    [kind |-> "IsolationForest", contamination |-> contamination,
     random_state |-> 42, n_estimators |-> 100]

\* the step of train that raises: none, model.fit (data with a NaN or an
\* infinity, which the request models accept as floats), or
\* model_storage.save_model (the models directory cannot be written)
TrainFaults == {"none", "fit", "save"}

\* the step that fails is reached
FitFails(valid, fault) == valid /\ fault = "fit"
SaveFails(valid, auto_save, fault) == valid /\ auto_save /\ fault = "save"

\* PersistentAnomalyDetector.train, lines 88-104 and 129-134: the detector
\* after a train whose fit or save raised
PersistentTrainedOrFailed(det, data, auto_save, fault) ==
    IF FitFails(Len(data) >= MinTrainingPoints, fault)
    THEN [det EXCEPT !.model = IsolationForestNew(det.contamination)]
    ELSE PersistentTrained(det, data)

PersistentTrainOutcome(det, data, auto_save, fault) ==
    IF FitFails(Len(data) >= MinTrainingPoints, fault)
    THEN [success |-> FALSE, error |-> "Input X contains NaN."]
    ELSE IF SaveFails(Len(data) >= MinTrainingPoints, auto_save, fault)
    THEN [success |-> FALSE, error |-> "Permission denied"]
    ELSE PersistentTrainResult(det, data, auto_save)

\* the files after it: save_model raises at open(filepath, 'wb'), line 49
PersistentTrainFilesOrFailed(fs, det, data, auto_save, fault, t) ==
    IF fault = "none" THEN PersistentTrainFS(fs, det, data, auto_save, t) ELSE fs

\* MultiMetricDetector.train, lines 58-71 and 93-98: the detector after a
\* train whose fit raised
MultiTrainedOrFailed(det, metrics_data, fault) ==
    IF FitFails(MultiTrainError(metrics_data) = "", fault)
    THEN [det EXCEPT !.metric_names = KeysOf(metrics_data),
                     !.model = IsolationForestNew(det.contamination)]
    ELSE MultiTrained(det, metrics_data)

MultiTrainOutcome(det, metrics_data, fault) ==
    IF FitFails(MultiTrainError(metrics_data) = "", fault)
    THEN [success |-> FALSE, error |-> "Input X contains NaN."]
    ELSE MultiTrainResult(det, metrics_data)

\* detector.train(data, auto_save)
PTrainOrFail(data, auto_save, fault) ==
    /\ budget > 0
    /\ budget' = budget - 1
    /\ request' = [op |-> "train", detector |-> "persistent", fault |-> fault]
    /\ pdet' = PersistentTrainedOrFailed(pdet, data, auto_save, fault)
    /\ files' = PersistentTrainFilesOrFailed(files, pdet, data, auto_save, fault, now)
    /\ response' = [raised |-> "none",
                    result |-> PersistentTrainOutcome(pdet, data, auto_save, fault)]
    /\ UNCHANGED <<now, ret, lastSave, sdet, adet, afiles, concVars, statVars,
                   normVars, multiVars, alertVars>>

\* multi_metric_detector.train(metrics_data)
MTrainOrFail(metrics_data, fault) ==
    /\ budget > 0
    /\ budget' = budget - 1
    /\ request' = [op |-> "train", detector |-> "multi", fault |-> fault]
    /\ mdet' = MultiTrainedOrFailed(mdet, metrics_data, fault)
    /\ response' = [raised |-> "none",
                    result |-> MultiTrainOutcome(mdet, metrics_data, fault)]
    /\ UNCHANGED <<files, now, ret, lastSave, detVars, concVars, statVars,
                   normVars, alertVars>>

InitTrainFault ==
    /\ files = EmptyFS
    /\ now = 0
    /\ ret = NoCall
    /\ lastSave = [n \in Names |-> NoSave]
    /\ budget = MaxOps
    /\ pdet = NewPersistentDetector(EmptyFS, <<"cpu">>)
    /\ sdet = NoDetector
    /\ adet = NoDetector
    /\ afiles = EmptyFS
    /\ mdet = MultiNewDetector
    /\ IdleConc /\ IdleStat /\ IdleNorm /\ IdleAlerts /\ IdleCall

NextTrainFault ==
    \/ \E d \in TrainingInputs, a \in BOOLEAN, f \in TrainFaults :
          PTrainOrFail(d, a, f)
    \/ \E d \in MetricsDataInputs, f \in {"none", "fit"} : MTrainOrFail(d, f)

SpecTrainFault == InitTrainFault /\ [][NextTrainFault]_vars

\* C28 (as claimed): whenever train returns a failure result, the detector
\* is as it was before the call (model, is_trained, training statistics,
\* metric names), also when fit or the save after it failed.
C28_FailedTrainChangesNothing ==
    [][(response' # None /\ ~response'.result.success)
           => (pdet' = pdet /\ mdet' = mdet)]_vars

\* the parts of C28: a rejected input, a failing fit, a failing save
C28_RejectedTrainChangesNothing ==
    [][(response' # None /\ ~response'.result.success /\ request'.fault = "none")
           => (pdet' = pdet /\ mdet' = mdet)]_vars

C28_FailedFitChangesNothing ==
    [][(response' # None /\ ~response'.result.success /\ request'.fault = "fit")
           => (pdet' = pdet /\ mdet' = mdet)]_vars

C28_FailedSaveChangesNothing ==
    [][(response' # None /\ ~response'.result.success /\ request'.fault = "save")
           => (pdet' = pdet /\ mdet' = mdet)]_vars


\* C29 (as claimed): after every successful multivariate train the metrics
\* that have recorded training statistics are exactly the metric names of
\* that train call, also after a retrain with another metric name set.
C29_StatsOfTrainedMetricsOnly ==
    (ret.op = "mtrain" /\ ret.result.success) =>
        DOMAIN mdet.training_stats = SetOf(ret.result.metrics)

\* the part of C29 about the first train of a detector: the metric names the
\* detector keeps are those of its statistics
C29_StatsCoverTrainedMetrics ==
    (ret.op = "mtrain" /\ ret.result.success) =>
        SetOf(mdet.metric_names) \subseteq DOMAIN mdet.training_stats

-----------------------------------------------------------------------------
(* IEEE 754 binary64, the float64 of the numpy arrays and the Python      *)
(* floats of root_cause_analyzer.py: every operation returns the exact    *)
(* result rounded to 53 significant bits, ties to even. Subnormals,       *)
(* infinities and NaN are outside the values the requests below reach.    *)

\* a natural number of any size: its digits to the base LimbBase, lowest
\* first, without leading zeros; <<>> is 0
LimbBits == 14
LimbBase == 2 ^ LimbBits

RECURSIVE Trim(_)
Trim(a) ==
    IF a = <<>> THEN <<>>
    ELSE IF a[Len(a)] = 0 THEN Trim(SubSeq(a, 1, Len(a) - 1))
    ELSE a

RECURSIVE BigOf(_)
BigOf(n) == IF n = 0 THEN <<>> ELSE <<n % LimbBase>> \o BigOf(n \div LimbBase)

LimbAt(a, i) == IF i \in 1..Len(a) THEN a[i] ELSE 0

RECURSIVE AddFrom(_, _, _, _)
AddFrom(a, b, i, carry) ==
    IF i > Len(a) /\ i > Len(b)
    THEN IF carry = 0 THEN <<>> ELSE <<carry>>
    ELSE LET s == LimbAt(a, i) + LimbAt(b, i) + carry
         IN  <<s % LimbBase>> \o AddFrom(a, b, i + 1, s \div LimbBase)

BigAdd(a, b) == AddFrom(a, b, 1, 0)

RECURSIVE SubFrom(_, _, _, _)
SubFrom(a, b, i, borrow) ==
    IF i > Len(a) THEN <<>>
    ELSE LET s == LimbAt(a, i) - LimbAt(b, i) - borrow
         IN  IF s < 0 THEN <<s + LimbBase>> \o SubFrom(a, b, i + 1, 1)
             ELSE <<s>> \o SubFrom(a, b, i + 1, 0)

\* a - b for a >= b
BigSub(a, b) == Trim(SubFrom(a, b, 1, 0))

RECURSIVE LessFrom(_, _, _)
LessFrom(a, b, i) ==
    IF i = 0 THEN FALSE
    ELSE IF a[i] # b[i] THEN a[i] < b[i]
    ELSE LessFrom(a, b, i - 1)

BigLess(a, b) ==
    IF Len(a) # Len(b) THEN Len(a) < Len(b) ELSE LessFrom(a, b, Len(a))

\* a * s for a factor s of one limb
RECURSIVE MulSmallFrom(_, _, _, _)
MulSmallFrom(a, s, i, carry) ==
    IF i > Len(a) THEN IF carry = 0 THEN <<>> ELSE <<carry>>
    ELSE LET p == a[i] * s + carry
         IN  <<p % LimbBase>> \o MulSmallFrom(a, s, i + 1, p \div LimbBase)

BigMulSmall(a, s) == Trim(MulSmallFrom(a, s, 1, 0))

Zeros(n) == [i \in 1..n |-> 0]

\* a * b, one limb of b at a time
RECURSIVE MulFrom(_, _, _)
MulFrom(a, b, j) ==
    IF j > Len(b) THEN <<>>
    ELSE BigAdd(IF b[j] = 0 THEN <<>> ELSE Zeros(j - 1) \o BigMulSmall(a, b[j]),
                MulFrom(a, b, j + 1))

BigMul(a, b) == IF a = <<>> THEN <<>> ELSE MulFrom(a, b, 1)

\* a * 2^k
ShiftLeft(a, k) ==
    IF a = <<>> THEN <<>>
    ELSE Zeros(k \div LimbBits) \o BigMulSmall(a, 2 ^ (k % LimbBits))

\* a div 2^k
ShiftRight(a, k) ==
    LET limbs == k \div LimbBits
        bits == k % LimbBits
        rest == IF limbs >= Len(a) THEN <<>> ELSE SubSeq(a, limbs + 1, Len(a))
    IN  Trim([i \in 1..Len(rest) |->
                 (rest[i] \div (2 ^ bits))
                     + (LimbAt(rest, i + 1) % (2 ^ bits)) * (2 ^ (LimbBits - bits))])

\* the number of binary digits of a
BitLength(a) ==
    IF a = <<>> THEN 0
    ELSE (Len(a) - 1) * LimbBits
            + (CHOOSE k \in 1..LimbBits :
                   2 ^ (k - 1) <= a[Len(a)] /\ a[Len(a)] < 2 ^ k)

IsOdd(a) == a # <<>> /\ a[1] % 2 = 1

\* the number whose binary digits are bits, highest first
BigOfBits(bits) ==
    LET BitAt(p) == IF p < Len(bits) THEN bits[Len(bits) - p] ELSE 0
    IN  Trim([i \in 1..((Len(bits) + LimbBits - 1) \div LimbBits) |->
                 SumSeq([t \in 1..LimbBits |->
                            BitAt((i - 1) * LimbBits + t - 1) * 2 ^ (t - 1)])])

\* floor(n * 2^k / d) for n < 2 * d, and whether the division left a rest:
\* long division to the base 2, until the quotient has k + 1 digits
RECURSIVE DivSteps(_, _, _, _)
DivSteps(rest, d, k, bits) ==
    IF Len(bits) = k + 1
    THEN [quotient |-> BigOfBits(bits), inexact |-> rest # <<>>]
    ELSE LET r2 == BigAdd(rest, rest)
         IN  IF BigLess(r2, d) THEN DivSteps(r2, d, k, Append(bits, 0))
             ELSE DivSteps(BigSub(r2, d), d, k, Append(bits, 1))

BigDivide(n, d, k) ==
    IF BigLess(n, d) THEN DivSteps(n, d, k, <<0>>)
    ELSE DivSteps(BigSub(n, d), d, k, <<1>>)

\* floor(sqrt(n)) for n < 2^(2 * bits): one binary digit at a time
RECURSIVE SqrtSteps(_, _, _)
SqrtSteps(n, bit, root) ==
    IF bit < 0 THEN root
    ELSE LET try == BigAdd(root, ShiftLeft(<<1>>, bit))
         IN  IF BigLess(n, BigMul(try, try)) THEN SqrtSteps(n, bit - 1, root)
             ELSE SqrtSteps(n, bit - 1, try)

BigSqrt(n, bits) == SqrtSteps(n, bits - 1, <<>>)

\* a float64: (-1)^neg * man * 2^exp with man of exactly MantissaBits binary
\* digits, or man = 0
MantissaBits == 53

FloatZero == [neg |-> FALSE, man |-> <<>>, exp |-> 0]

\* the float64 nearest to (n + f) * 2^e, where 0 < f < 1 if inexact and
\* f = 0 otherwise; ties go to the even mantissa. An inexact n has at least
\* MantissaBits + 2 digits.
RoundToFloat(neg, n, e, inexact) ==
    LET length == BitLength(n)
        drop == length - MantissaBits
        kept == ShiftRight(n, drop)
        lost == BigSub(n, ShiftLeft(kept, drop))
        half == ShiftLeft(<<1>>, drop - 1)
        up == \/ BigLess(half, lost)
              \/ lost = half /\ (inexact \/ IsOdd(kept))
        rounded == IF up THEN BigAdd(kept, <<1>>) ELSE kept
    IN  IF n = <<>> THEN FloatZero
        ELSE IF drop <= 0
        THEN [neg |-> neg, man |-> ShiftLeft(n, -drop), exp |-> e + drop]
        ELSE IF BitLength(rounded) > MantissaBits
        THEN [neg |-> neg, man |-> ShiftRight(rounded, 1), exp |-> e + drop + 1]
        ELSE [neg |-> neg, man |-> rounded, exp |-> e + drop]

\* float(n) of an int
FloatOf(n) == RoundToFloat(n < 0, BigOf(IF n < 0 THEN -n ELSE n), 0, FALSE)

FloatNeg(x) == IF x.man = <<>> THEN x ELSE [x EXCEPT !.neg = ~x.neg]
FloatAbs(x) == [x EXCEPT !.neg = FALSE]

\* x + y
FloatAdd(x, y) ==
    IF x.man = <<>> THEN y
    ELSE IF y.man = <<>> THEN x
    ELSE LET e == IF x.exp < y.exp THEN x.exp ELSE y.exp
             nx == ShiftLeft(x.man, x.exp - e)
             ny == ShiftLeft(y.man, y.exp - e)
         IN  IF x.neg = y.neg THEN RoundToFloat(x.neg, BigAdd(nx, ny), e, FALSE)
             ELSE IF BigLess(nx, ny)
             THEN RoundToFloat(y.neg, BigSub(ny, nx), e, FALSE)
             ELSE RoundToFloat(x.neg, BigSub(nx, ny), e, FALSE)

\* x - y
FloatSub(x, y) == FloatAdd(x, FloatNeg(y))

\* x * y
FloatMul(x, y) ==
    RoundToFloat(x.neg # y.neg, BigMul(x.man, y.man), x.exp + y.exp, FALSE)

\* x / y for y # 0
FloatDiv(x, y) ==
    IF x.man = <<>> THEN FloatZero
    ELSE LET q == BigDivide(x.man, y.man, MantissaBits + 2)
         IN  RoundToFloat(x.neg # y.neg, q.quotient,
                          x.exp - y.exp - (MantissaBits + 2), q.inexact)

\* sqrt(x) for x >= 0: the root of man * 2^shift, with an even exponent left
\* and a root of at least MantissaBits + 2 digits
SqrtShift == MantissaBits + 5

FloatSqrt(x) ==
    IF x.man = <<>> THEN FloatZero
    ELSE LET odd == x.exp % 2 = 1
             shift == IF odd THEN SqrtShift + 1 ELSE SqrtShift
             n == ShiftLeft(x.man, shift)
             e == x.exp - shift
             root == BigSqrt(n, (MantissaBits + SqrtShift + 1) \div 2)
         IN  RoundToFloat(FALSE, root, e \div 2, BigMul(root, root) # n)

\* x < y
FloatLess(x, y) ==
    IF x.man = <<>> THEN y.man # <<>> /\ ~y.neg
    ELSE IF y.man = <<>> THEN x.neg
    ELSE IF x.neg # y.neg THEN x.neg
    ELSE LET e == IF x.exp < y.exp THEN x.exp ELSE y.exp
             nx == ShiftLeft(x.man, x.exp - e)
             ny == ShiftLeft(y.man, y.exp - e)
         IN  IF x.neg THEN BigLess(ny, nx) ELSE BigLess(nx, ny)

RECURSIVE FloatSum(_)
FloatSum(xs) ==
    IF xs = <<>> THEN FloatZero
    ELSE FloatAdd(FloatSum(SubSeq(xs, 1, Len(xs) - 1)), xs[Len(xs)])

\* np.mean(arr): the sum of the elements, added in their order as numpy adds
\* fewer than 8 of them, divided by their number
NpMean(arr) == FloatDiv(FloatSum(arr), FloatOf(Len(arr)))

\* np.std(arr): the root of the mean of the squared deviations from the mean
NpStd(arr) ==
    LET arrmean == NpMean(arr)
        x == [i \in 1..Len(arr) |-> FloatSub(arr[i], arrmean)]
        squares == [i \in 1..Len(arr) |-> FloatMul(x[i], x[i])]
    IN  FloatSqrt(FloatDiv(FloatSum(squares), FloatOf(Len(arr))))

\* the last value of a window in exact arithmetic: its deviation from the
\* mean is d / n and the variance of the window is v / n^2
ExactDeviation(values) == Len(values) * values[Len(values)] - SumSeq(values)
ExactVariance(values) ==
    Len(values) * SumSeq([i \in DOMAIN values |-> values[i] * values[i]])
        - SumSeq(values) * SumSeq(values)

\* _has_spike without the rounding of float64: (d / n)^2 > 4 * v / n^2
HasSpikeExact(values) ==
    /\ Len(values) >= 3
    /\ ExactVariance(values) > 0
    /\ ExactDeviation(values) * ExactDeviation(values) > 4 * ExactVariance(values)

\* _has_spike(values)
HasSpike(values) ==
    IF Len(values) < 3 THEN FALSE
    ELSE LET arr == [i \in 1..Len(values) |-> FloatOf(values[i])]
             mean == NpMean(arr)
             std == NpStd(arr)
             last_z_score == FloatAbs(FloatDiv(FloatSub(arr[Len(arr)], mean), std))
         IN  IF FloatLess(FloatZero, std)
             THEN FloatLess(FloatOf(2), last_z_score)
             ELSE FALSE

-----------------------------------------------------------------------------
(* RootCauseAnalyzer.analyze of src/models/root_cause_analyzer.py *)

\* a float literal such as 0.3: the float64 nearest to n / d
Decimal(n, d) == FloatDiv(FloatOf(n), FloatOf(d))

FloatMin(x, y) == IF FloatLess(y, x) THEN y ELSE x

\* asset_scores: a dict, with its keys in the order they were inserted
NoScores == [order |-> <<>>, scores |-> <<>>]

\* asset_scores.get(asset_id, 0)
ScoreOr0(acc, asset_id) ==
    IF asset_id \in DOMAIN acc.scores THEN acc.scores[asset_id] ELSE FloatZero

\* asset_scores[asset_id] = x
WithScore(acc, asset_id, x) ==
    [order |-> IF asset_id \in DOMAIN acc.scores THEN acc.order
               ELSE Append(acc.order, asset_id),
     scores |-> [k \in DOMAIN acc.scores \cup {asset_id} |->
                    IF k = asset_id THEN x ELSE acc.scores[k]]]

\* an event without assetId
NoAsset == ""

\* analyze, lines 42-43: the asset of the event itself
DirectScores(event) ==
    IF event.assetId # NoAsset
    THEN WithScore(NoScores, event.assetId, Decimal(1, 2))
    ELSE NoScores

\* analyze, lines 46-49: the assets of the related events
RECURSIVE RelatedScores(_, _)
RelatedScores(acc, related_events) ==
    IF related_events = <<>> THEN acc
    ELSE LET asset_id == Head(related_events).assetId
         IN  RelatedScores(
                 IF asset_id # NoAsset
                 THEN WithScore(acc, asset_id,
                                FloatAdd(ScoreOr0(acc, asset_id), Decimal(1, 5)))
                 ELSE acc,
                 Tail(related_events))

\* metrics[-5:]
RecentValues(metrics) ==
    SubSeq(metrics, IF Len(metrics) > 5 THEN Len(metrics) - 4 ELSE 1, Len(metrics))

\* analyze, lines 53-57: one item of asset_metrics
SpikeScored(acc, asset_id, metrics) ==
    IF metrics # <<>> /\ HasSpike(RecentValues(metrics))
    THEN WithScore(acc, asset_id,
                   FloatAdd(ScoreOr0(acc, asset_id), Decimal(3, 10)))
    ELSE acc

\* analyze, lines 52-57: the assets whose recent values show a spike;
\* asset_metrics is the dict as the list of its items
RECURSIVE MetricScores(_, _)
MetricScores(acc, asset_metrics) ==
    IF asset_metrics = <<>> THEN acc
    ELSE MetricScores(SpikeScored(acc, Head(asset_metrics).assetId,
                                  Head(asset_metrics).metrics),
                      Tail(asset_metrics))

\* max(asset_scores.values())
MaxScore(acc) ==
    CHOOSE x \in {acc.scores[k] : k \in DOMAIN acc.scores} :
        \A k \in DOMAIN acc.scores : ~FloatLess(x, acc.scores[k])

\* analyze, lines 62-64: the scores divided by max_score
DividedBy(acc, max_score) ==
    [acc EXCEPT !.scores =
        [k \in DOMAIN acc.scores |->
            FloatMin(FloatDiv(acc.scores[k], max_score), FloatOf(1))]]

\* analyze, lines 60-64: the scores divided by the highest of them
NormalizedScores(acc) ==
    IF acc.order = <<>> \/ ~FloatLess(FloatZero, MaxScore(acc)) THEN acc
    ELSE DividedBy(acc, MaxScore(acc))

\* max(asset_scores, key=asset_scores.get): the first key of the highest score
RootCauseAssetId(acc) ==
    acc.order[CHOOSE i \in DOMAIN acc.order :
                 /\ \A j \in DOMAIN acc.order :
                        ~FloatLess(acc.scores[acc.order[i]], acc.scores[acc.order[j]])
                 /\ \A j \in 1..(i - 1) :
                        FloatLess(acc.scores[acc.order[j]], acc.scores[acc.order[i]])]

\* analyze, lines 66-80: the dict it returns, but for analysis_timestamp
ResultOf(asset_scores, related_events) ==
    [root_cause_asset_id |->
         IF asset_scores.order = <<>> THEN None
         ELSE [kind |-> "asset", id |-> RootCauseAssetId(asset_scores)],
     confidence |->
         IF asset_scores.order = <<>> THEN FloatZero
         ELSE asset_scores.scores[RootCauseAssetId(asset_scores)],
     asset_scores |-> asset_scores.scores,
     correlated_events_count |-> Len(related_events)]

\* analyze(event, related_events, asset_metrics)
AnalyzeResult(event, related_events, asset_metrics) ==
    ResultOf(NormalizedScores(
                 MetricScores(RelatedScores(DirectScores(event), related_events),
                              asset_metrics)),
             related_events)

\* the values of the metric windows and the longest run of equal values
SpikeValues == {0, 50, 109, 500}
MaxEqual == 5

\* runs of one value followed by another value
MetricWindows ==
    {Rep(a, k) \o <<b>> : a \in SpikeValues, b \in SpikeValues, k \in 0..MaxEqual}

AnalysisRequests ==
    [event : [assetId : {NoAsset, "a1"}],
     related_events : {<<>>, <<[assetId |-> "a2"]>>},
     asset_metrics : {<<[assetId |-> "a2", metrics |-> w]>> : w \in MetricWindows}]

\* root_cause_analyzer.analyze(event, related_events, asset_metrics), once
AnalyzeRootCause ==
    /\ budget > 0
    /\ budget' = budget - 1
    /\ \E req \in AnalysisRequests :
          /\ request' = req
          /\ response' = AnalyzeResult(req.event, req.related_events,
                                       req.asset_metrics)
    /\ UNCHANGED <<files, now, ret, lastSave, detVars, concVars, statVars,
                   normVars, multiVars, alertVars>>

InitAnalyze ==
    /\ files = EmptyFS
    /\ now = 0
    /\ ret = NoCall
    /\ lastSave = [n \in Names |-> NoSave]
    /\ budget = 1
    /\ IdleDet /\ IdleConc /\ IdleStat /\ IdleRest

NextAnalyze == AnalyzeRootCause

SpecAnalyze == InitAnalyze /\ [][NextAnalyze]_vars

\* four equal values followed by a much larger one
SpikeWindow == <<0, 0, 0, 0, 109>>

\* the assets of the request whose last values are the window
AssetsWithWindow(window) ==
    {request.asset_metrics[i].assetId :
        i \in {j \in DOMAIN request.asset_metrics :
                  RecentValues(request.asset_metrics[j].metrics) = window}}

\* the request gives the asset no score but for its metrics
ScoredByMetricsOnly(asset_id) ==
    /\ request.event.assetId # asset_id
    /\ \A i \in DOMAIN request.related_events :
           request.related_events[i].assetId # asset_id

SpikeOnlyByRounding ==
    response # None =>
        \A i \in DOMAIN request.asset_metrics :
            LET asset_id == request.asset_metrics[i].assetId
                values == RecentValues(request.asset_metrics[i].metrics)
            IN  (ScoredByMetricsOnly(asset_id)
                     /\ asset_id \in DOMAIN response.asset_scores)
                    => ExactDeviation(values) * ExactDeviation(values)
                           = 4 * ExactVariance(values)

\* the much larger last value 500 after four values 50 is given no bonus
NoBonusFor500 ==
    (response # None /\ ScoredByMetricsOnly("a2")
        /\ "a2" \in AssetsWithWindow(<<50, 50, 50, 50, 500>>))
        => "a2" \notin DOMAIN response.asset_scores

=============================================================================
